---- MODULE Spec2Model ----
(***************************************************************************)
(* A model of the YouLearn notebook backend:                               *)
(*   - the sandboxed mutation surface (tools/notebook_tools.py) over a     *)
(*     small POSIX-like file system (SpecTools);                           *)
(*   - the two background passes, fact-check (factcheck.py) and progress   *)
(*     (progress.py), interleaved with foreground writes (SpecPass);       *)
(*   - the context bundle of a request (context.py, SpecContext) and the   *)
(*     event stream and background tasks of a request (server.py,          *)
(*     SpecChat).                                                          *)
(* Paths and arguments are real strings: they are split, joined,           *)
(* normalised and compared character by character as the code does.        *)
(***************************************************************************)
EXTENDS Integers, Sequences, FiniteSets, TLC

VARIABLES
    dirs,       \* file system: the set of directories (absolute paths, sequences of names)
    files,      \* file system: regular files, absolute path -> text (sequence of lines)
    ret,        \* the value returned (or exception raised) by the last tool call
    touched,    \* paths whose content the last tool call read, created, modified or compiled
    lastOp,     \* the last tool call: its name and arguments
    regLog,     \* history: include blocks registered so far, per container, in call order
    now,        \* wall clock (time.time() and st_mtime read the same clock)
    mtime,      \* tracked document -> modification time (0: the document does not exist)
    sessions,   \* number of session-*.tex documents in notes/latex/sessions
    cursor,     \* pass kind -> persisted last_run (0: no state file)
    report,     \* fact-check-report.json (NoReport: absent)
    progress,   \* notes/latex/progress/progress.tex (NoProgress: absent)
    pass,       \* pass instance -> its local state (pc, last_run, delta, run_ts, ...)
    included,   \* history: pass kind -> documents whose current version a successful pass included
    quiet,      \* history: pass kind -> TRUE when the last successful pass saw no edit since it began
    corrupt,    \* the pass kinds whose state file holds text that is not a JSON record
    chat,       \* the chat request being served: its mode, the events sent, the tasks started
    ctx         \* the last call of build_context: arguments, workspace seen, text returned

toolVars == <<dirs, files, ret, touched, lastOp, regLog, chat, ctx>>
passVars == <<now, mtime, sessions, cursor, report, progress, pass, included, quiet, corrupt>>
vars == <<dirs, files, ret, touched, lastOp, regLog,
          now, mtime, sessions, cursor, report, progress, pass, included, quiet, corrupt,
          chat, ctx>>

-----------------------------------------------------------------------------
(* Strings *)

\* str.startswith
StartsWith(s, t) == Len(t) <= Len(s) /\ SubSeq(s, 1, Len(t)) = t

\* str.endswith
EndsWith(s, t) == Len(t) <= Len(s) /\ SubSeq(s, Len(s) - Len(t) + 1, Len(s)) = t

\* s.split(sep) for a one-character sep: i scans s, cur is the piece being read
Split(s, sep) ==
    LET RECURSIVE SplitFrom(_, _)
        SplitFrom(i, cur) ==
            IF i > Len(s) THEN <<cur>>
            ELSE IF SubSeq(s, i, i) = sep THEN <<cur>> \o SplitFrom(i + 1, "")
            ELSE SplitFrom(i + 1, cur \o SubSeq(s, i, i))
    IN SplitFrom(1, "")

\* the first position at or after i where t occurs in s; 0 when there is none
Find(s, t, i) ==
    LET hits == {j \in i..(Len(s) - Len(t) + 1) : j >= 1 /\ SubSeq(s, j, j + Len(t) - 1) = t}
    IN IF hits = {} THEN 0 ELSE CHOOSE j \in hits : \A k \in hits : j <= k

\* str.strip
Strip(s) ==
    LET RECURSIVE LStrip(_), RStrip(_)
        LStrip(u) == IF Len(u) > 0 /\ SubSeq(u, 1, 1) \in {" ", "\n"}
                     THEN LStrip(SubSeq(u, 2, Len(u))) ELSE u
        RStrip(u) == IF Len(u) > 0 /\ SubSeq(u, Len(u), Len(u)) \in {" ", "\n"}
                     THEN RStrip(SubSeq(u, 1, Len(u) - 1)) ELSE u
    IN LStrip(RStrip(s))

RECURSIVE SelectLines(_)
\* the non-blank lines, stripped
SelectLines(ls) ==
    IF ls = <<>> THEN <<>>
    ELSE IF Strip(Head(ls)) # "" THEN <<Strip(Head(ls))>> \o SelectLines(Tail(ls))
    ELSE SelectLines(Tail(ls))

Digit(n) == CASE n = 0 -> "0" [] n = 1 -> "1" [] n = 2 -> "2" [] n = 3 -> "3"
              [] n = 4 -> "4" [] n = 5 -> "5" [] n = 6 -> "6" [] n = 7 -> "7"
              [] n = 8 -> "8" [] n = 9 -> "9"

RECURSIVE Str(_)
\* f"{n}" for a natural number
Str(n) == IF n < 10 THEN Digit(n) ELSE Str(n \div 10) \o Digit(n % 10)

\* f"{n:02d}" for a natural number
Fmt02d(n) == IF n < 10 THEN "0" \o Digit(n) ELSE Str(n)

\* the texts of a sequence, one after the other
Flatten(texts) ==
    LET \* texts[a] \o ... \o texts[b], by halves
        RECURSIVE Between(_, _, _)
        Between(t, a, b) ==
            IF a > b THEN <<>>
            ELSE IF a = b THEN t[a]
            ELSE Between(t, a, (a + b) \div 2) \o Between(t, (a + b) \div 2 + 1, b)
    IN CHOOSE r \in {Between(t, 1, Len(t)) : t \in {texts}} : TRUE

\* sorted(S) for a set of strings: Alphabet holds the characters of the names
\* used here in code-point order, and StrLess(s, t) is s < t as Python
\* compares strings
Sorted(S) ==
    LET Alphabet == " %-./0123456789ABCDEFGHIJKLMNOPQRSTUVWXYZ_abcdefghijklmnopqrstuvwxyz{}"
        Rank(c) == CHOOSE i \in 1..Len(Alphabet) : SubSeq(Alphabet, i, i) = c
        RECURSIVE StrLess(_, _)
        StrLess(s, t) ==
            IF t = "" THEN FALSE
            ELSE IF s = "" THEN TRUE
            ELSE IF SubSeq(s, 1, 1) = SubSeq(t, 1, 1)
            THEN StrLess(SubSeq(s, 2, Len(s)), SubSeq(t, 2, Len(t)))
            ELSE Rank(SubSeq(s, 1, 1)) < Rank(SubSeq(t, 1, 1))
        \* each name with the number of names before it
        Places(names) == {<<Cardinality({y \in names : StrLess(y, x)}), x>> : x \in names}
    IN CHOOSE r \in {[i \in 1..Cardinality(P) |-> (CHOOSE p \in P : p[1] = i - 1)[2]] :
                     P \in {Places(S)}} : TRUE

-----------------------------------------------------------------------------
(* Paths: an absolute path is the sequence of its names from "/" *)

\* the names of a path string: pathlib drops empty and "." segments when it
\* parses a string (".." is kept)
Parts(s) == SelectSeq(Split(s, "/"), LAMBDA n : n \notin {"", "."})

\* pathlib's base / s : an absolute s replaces base
Join(base, s) == IF StartsWith(s, "/") THEN Parts(s) ELSE base \o Parts(s)

Parent(p) == IF p = <<>> THEN <<>> ELSE SubSeq(p, 1, Len(p) - 1)

Name(p) == IF p = <<>> THEN "" ELSE p[Len(p)]

\* Path.resolve() without symbolic links: ".." removes the name before it
Resolve(p) ==
    LET RECURSIVE Normalize(_, _)
        Normalize(q, acc) ==
            IF q = <<>> THEN acc
            ELSE IF Head(q) = ".." THEN Normalize(Tail(q), Parent(acc))
            ELSE Normalize(Tail(q), Append(acc, Head(q)))
    IN Normalize(p, <<>>)

RECURSIVE PathStr(_)
\* str(path)
PathStr(p) == IF p = <<>> THEN ""
              ELSE PathStr(Parent(p)) \o "/" \o Name(p)

\* with_suffix: the last name with its extension replaced
WithSuffix(p, old, new) ==
    IF EndsWith(Name(p), old)
    THEN Append(Parent(p), SubSeq(Name(p), 1, Len(Name(p)) - Len(old)) \o new)
    ELSE Append(Parent(p), Name(p) \o new)

\* the prefixes of p, p included, the root excluded
Ancestors(p) == {SubSeq(p, 1, n) : n \in 1..Len(p)}

IsPrefix(r, p) == Len(r) <= Len(p) /\ SubSeq(p, 1, Len(r)) = r

-----------------------------------------------------------------------------
(* The file system the tools act on *)

\* Settings.workspace / Settings.active_class, resolved
class_dir == <<"classes", "Math-104">>

FS == [dirs |-> dirs, files |-> files]

IsDir(fs, p) == p = <<>> \/ p \in fs.dirs

IsFile(fs, p) == p \in DOMAIN fs.files

\* the kernel's path walk: every name but the last is looked up in a directory
\* that exists, and ".." goes to the parent of the directory reached so far
Walk(fs, p) ==
    LET RECURSIVE WalkFrom(_, _)
        WalkFrom(cur, rest) ==
            IF rest = <<>> THEN [ok |-> TRUE, path |-> cur]
            ELSE IF ~IsDir(fs, cur) THEN [ok |-> FALSE, path |-> cur]
            ELSE IF Head(rest) = ".." THEN WalkFrom(Parent(cur), Tail(rest))
            ELSE WalkFrom(Append(cur, Head(rest)), Tail(rest))
    IN WalkFrom(<<>>, p)

\* Path.exists(): False when the walk fails
PExists(fs, p) ==
    LET w == Walk(fs, p) IN w.ok /\ (IsDir(fs, w.path) \/ IsFile(fs, w.path))

\* Path.is_dir()
PIsDir(fs, p) == LET w == Walk(fs, p) IN w.ok /\ IsDir(fs, w.path)

\* Path.mkdir(parents=True, exist_ok=True) of a normalised path
Mkdirs(fs, p) ==
    IF IsFile(fs, p) THEN [ok |-> FALSE, err |-> "raise FileExistsError", fs |-> fs]
    ELSE IF \E a \in Ancestors(p) : IsFile(fs, a)
    THEN [ok |-> FALSE, err |-> "raise NotADirectoryError", fs |-> fs]
    ELSE [ok |-> TRUE, err |-> "", fs |-> [fs EXCEPT !.dirs = @ \cup Ancestors(p)]]

RECURSIVE Universal(_)
\* the newline translation of a file read in text mode: "\r\n" and "\r" are
\* each read as one line end
Universal(text) ==
    LET parts(i) == IF Find(text[i], "\r", 1) = 0 THEN <<text[i]>>
                    ELSE Split(text[i], "\r")
        kept(i)  == IF i < Len(text) /\ EndsWith(text[i], "\r")
                    THEN SubSeq(parts(i), 1, Len(parts(i)) - 1) ELSE parts(i)
    IN Flatten([i \in DOMAIN text |-> kept(i)])

\* Path.read_text()
ReadText(fs, p) ==
    LET w == Walk(fs, p) IN
    IF ~w.ok \/ ~(IsDir(fs, w.path) \/ IsFile(fs, w.path))
    THEN [ok |-> FALSE, err |-> "raise FileNotFoundError", text |-> <<>>, path |-> w.path]
    ELSE IF IsDir(fs, w.path)
    THEN [ok |-> FALSE, err |-> "raise IsADirectoryError", text |-> <<>>, path |-> w.path]
    ELSE [ok |-> TRUE, err |-> "", text |-> Universal(fs.files[w.path]), path |-> w.path]

\* Path.write_text(text): creates or replaces the file the walk ends at
WriteText(fs, p, text) ==
    LET w == Walk(fs, p) IN
    IF ~w.ok THEN [ok |-> FALSE, err |-> "raise FileNotFoundError", fs |-> fs, path |-> w.path]
    ELSE IF IsDir(fs, w.path)
    THEN [ok |-> FALSE, err |-> "raise IsADirectoryError", fs |-> fs, path |-> w.path]
    ELSE [ok |-> TRUE, err |-> "", path |-> w.path,
          fs |-> [fs EXCEPT !.files =
                    [q \in DOMAIN fs.files \cup {w.path} |->
                        IF q = w.path THEN text ELSE fs.files[q]]]]

\* a tool's return value; an escaping exception is a message that starts "raise "
Ret(msg) == [msg |-> msg, data |-> <<>>]

Raised(r) == StartsWith(r.msg, "raise ")

\* what one tool call does: the file system after it, what it returns, what it read
\* (t: the paths whose content the call read)
Out(fs, r, t) == [fs |-> fs, ret |-> r, touched |-> t]

-----------------------------------------------------------------------------
(* tools/notebook_tools.py *)

EscapesMsg == "Error: path escapes notebook directory"

\* NotebookTools._safe_path: None is [ok |-> FALSE]
safe_path(path) ==
    LET target == Resolve(Join(class_dir, path)) IN
    IF ~StartsWith(PathStr(target), PathStr(class_dir))
    THEN [ok |-> FALSE, target |-> <<>>]
    ELSE [ok |-> TRUE, target |-> target]

\* NotebookTools.read_file
read_file(path) ==
    LET sp == safe_path(path)
        r  == ReadText(FS, sp.target) IN
    IF ~sp.ok THEN Out(FS, Ret(EscapesMsg), {})
    ELSE IF ~PExists(FS, sp.target) THEN Out(FS, Ret("Error: file not found: " \o path), {})
    ELSE IF ~r.ok THEN Out(FS, Ret(r.err), {})
    ELSE Out(FS, [msg |-> "content", data |-> r.text], {r.path})

\* NotebookTools.write_file
write_file(path, content) ==
    LET sp == safe_path(path)
        mk == Mkdirs(FS, Parent(sp.target))
        wr == WriteText(mk.fs, sp.target, content) IN
    IF ~sp.ok THEN Out(FS, Ret(EscapesMsg), {})
    ELSE IF ~mk.ok THEN Out(FS, Ret(mk.err), {})
    ELSE IF ~wr.ok THEN Out(mk.fs, Ret(wr.err), mk.fs.dirs \ dirs)
    ELSE Out(wr.fs, Ret("Written: " \o path), (mk.fs.dirs \ dirs) \cup {wr.path})

\* NotebookTools.list_files
list_files(subdir) ==
    LET sp == safe_path(subdir)
        entries == {p \in FS.dirs \cup DOMAIN FS.files : p # <<>> /\ Parent(p) = sp.target}
        names == Sorted({Name(p) : p \in entries})
        shown == SelectSeq(names, LAMBDA n : ~StartsWith(n, "."))
        lines == [i \in DOMAIN shown |->
                    IF IsDir(FS, Append(sp.target, shown[i]))
                    THEN "d " \o shown[i] ELSE "f " \o shown[i]] IN
    IF ~sp.ok THEN Out(FS, Ret(EscapesMsg), {})
    ELSE IF ~PIsDir(FS, sp.target) THEN Out(FS, Ret("Error: not a directory: " \o subdir), {})
    ELSE IF lines = <<>> THEN Out(FS, Ret("(empty directory)"), {sp.target})
    ELSE Out(FS, [msg |-> "listing", data |-> lines], {sp.target})

-----------------------------------------------------------------------------
(* Texts are sequences of lines *)

\* marker in text
Contains(text, line) == \E i \in DOMAIN text : text[i] = line

\* text.replace(old, new): every occurrence of the line old becomes the lines new
Replace(text, old, new) ==
    Flatten([i \in DOMAIN text |-> IF text[i] = old THEN new ELSE <<text[i]>>])

Count(text, line) == Cardinality({i \in DOMAIN text : text[i] = line})

LectureMarker == "% ADD_LECTURE_HERE"

SessionMarker == "% ADD_SESSION_HERE"

latex_dir == class_dir \o <<"notes", "latex">>

template_path == latex_dir \o <<"temp", "temp.tex">>

master_path == latex_dir \o <<"master", "master.tex">>

sessions_dir == latex_dir \o <<"sessions">>

container_path == sessions_dir \o <<"sessions.tex">>

\* a variant of the splice that puts the block after the marker
InsertAfterMarker(text, marker, block) == Replace(text, marker, <<marker>> \o block)

\* content.replace(marker, subfile_line + marker): the block goes in front of
\* every occurrence of the marker line
InsertBeforeMarker(text, marker, block) == Replace(text, marker, block \o <<marker>>)

\* the include block create_lecture inserts (subfile_line)
LectureBlock(lecture_num) ==
    LET lec_id == "lec" \o Fmt02d(lecture_num) IN
    << "% Lecture " \o Str(lecture_num),
       "\\subfile{../" \o lec_id \o "/" \o lec_id \o "}",
       "\\newpage",
       "" >>

\* the include block create_session inserts (subfile_line)
SessionBlock(date) == << "\\subfile{session-" \o date \o "}", "" >>

\* the five literal substitutions of create_lecture
FillTemplate(content, lecture_num, date, topic) ==
    LET c1 == Replace(content, "\\renewcommand{\\lecturenum}{X}",
                      <<"\\renewcommand{\\lecturenum}{" \o Str(lecture_num) \o "}">>)
        c2 == Replace(c1, "\\renewcommand{\\lecturedate}{January 1, 2026}",
                      <<"\\renewcommand{\\lecturedate}{" \o date \o "}">>)
        c3 == Replace(c2, "\\renewcommand{\\lecturetopic}{Topic}",
                      <<"\\renewcommand{\\lecturetopic}{" \o topic \o "}">>)
        c4 == Replace(c3, "% LECTURE X: Topic",
                      <<"% LECTURE " \o Str(lecture_num) \o ": " \o topic>>)
    IN Replace(c4, "% Date: January 1, 2026", <<"% Date: " \o date>>)

\* NotebookTools.create_lecture
create_lecture(lecture_num, date, topic) ==
    LET lec_id   == "lec" \o Fmt02d(lecture_num)
        lec_dir  == latex_dir \o <<lec_id>>
        lec_file == lec_dir \o <<lec_id \o ".tex">>
        mk  == Mkdirs(FS, lec_dir)
        new == mk.fs.dirs \ dirs
        rd  == ReadText(mk.fs, template_path)
        wr  == WriteText(mk.fs, lec_file, FillTemplate(rd.text, lecture_num, date, topic))
        mr  == ReadText(wr.fs, master_path)
        mw  == WriteText(wr.fs, master_path,
                         InsertBeforeMarker(mr.text, LectureMarker,
                                            LectureBlock(lecture_num)))
        added == "Created " \o lec_id \o "/" \o lec_id \o
                 ".tex -- ready for content. Added to master.tex." IN
    IF PExists(FS, lec_file) THEN Out(FS, Ret("Error: " \o lec_id \o " already exists"), {})
    ELSE IF ~PExists(FS, template_path)
    THEN Out(FS, Ret("Error: template not found at notes/latex/temp/temp.tex"), {})
    ELSE IF ~mk.ok THEN Out(FS, Ret(mk.err), {})
    ELSE IF ~rd.ok THEN Out(mk.fs, Ret(rd.err), new)
    ELSE IF ~wr.ok THEN Out(mk.fs, Ret(wr.err), new \cup {template_path})
    ELSE IF ~PExists(wr.fs, master_path)
    THEN Out(wr.fs, Ret(added), new \cup {template_path, lec_file})
    ELSE IF ~mr.ok THEN Out(wr.fs, Ret(mr.err), new \cup {template_path, lec_file})
    ELSE IF ~Contains(mr.text, LectureMarker)
    THEN Out(wr.fs, Ret("Created " \o lec_id \o "/" \o lec_id \o
                        ".tex but could not find % ADD_LECTURE_HERE in master.tex"),
             new \cup {template_path, lec_file, master_path})
    ELSE Out(mw.fs, Ret(added), new \cup {template_path, lec_file, master_path})

\* the \item lines of create_session (covered_items, next_items); the lines of
\* an empty join are one empty line
Items(text) ==
    LET ls == SelectLines(Split(Strip(text), "\n")) IN
    IF ls = <<>> THEN <<"">> ELSE [i \in DOMAIN ls |-> "    \\item " \o ls[i]]

\* the session document create_session writes (summary is not used)
SessionContent(date, mode, topics, covered, next_steps) ==
    << "\\documentclass[../master/master.tex]{subfiles}", "",
       "\\begin{document}", "",
       "\\subsection{" \o date \o " --- " \o mode \o " Session}", "",
       "\\begin{summarybox}",
       "\\textbf{Session Summary} \\\\",
       "\\textbf{Date:} " \o date \o " \\\\",
       "\\textbf{Mode:} " \o mode \o " \\\\",
       "\\textbf{Topics:} " \o topics,
       "\\end{summarybox}", "",
       "\\textbf{What we covered:}",
       "\\begin{itemize}[nosep]" >>
    \o Items(covered) \o
    << "\\end{itemize}", "",
       "\\textbf{Next steps:}",
       "\\begin{itemize}[nosep]" >>
    \o Items(next_steps) \o
    << "\\end{itemize}", "",
       "\\end{document}" >>

\* a variant of create_session without the check that the session document
\* does not exist yet
create_session_overwrite(date, mode, summary, topics, covered, next_steps) ==
    LET session_id   == "session-" \o date
        session_file == Join(sessions_dir, session_id \o ".tex")
        mk  == Mkdirs(FS, sessions_dir)
        new == mk.fs.dirs \ dirs
        wr  == WriteText(mk.fs, session_file,
                         SessionContent(date, mode, topics, covered, next_steps))
        cr  == ReadText(wr.fs, container_path)
        cw  == WriteText(wr.fs, container_path,
                         InsertBeforeMarker(cr.text, SessionMarker, SessionBlock(date)))
        created == "Created session log: notes/latex/sessions/" \o session_id \o ".tex" IN
    IF ~mk.ok THEN Out(FS, Ret(mk.err), {})
    ELSE IF ~wr.ok THEN Out(mk.fs, Ret(wr.err), new)
    ELSE IF ~PExists(wr.fs, container_path) THEN Out(wr.fs, Ret(created), new \cup {wr.path})
    ELSE IF ~cr.ok THEN Out(wr.fs, Ret(cr.err), new \cup {wr.path})
    ELSE IF ~Contains(cr.text, SessionMarker)
    THEN Out(wr.fs, Ret(created), new \cup {wr.path, container_path})
    ELSE Out(cw.fs, Ret(created), new \cup {wr.path, container_path})

\* NotebookTools.create_session
create_session(date, mode, summary, topics, covered, next_steps) ==
    LET session_id   == "session-" \o date
        session_file == Join(sessions_dir, session_id \o ".tex")
        mk  == Mkdirs(FS, sessions_dir)
        new == mk.fs.dirs \ dirs
        wr  == WriteText(mk.fs, session_file,
                         SessionContent(date, mode, topics, covered, next_steps))
        cr  == ReadText(wr.fs, container_path)
        cw  == WriteText(wr.fs, container_path,
                         InsertBeforeMarker(cr.text, SessionMarker, SessionBlock(date)))
        created == "Created session log: notes/latex/sessions/" \o session_id \o ".tex" IN
    IF PExists(FS, session_file)
    THEN Out(FS, Ret("Error: " \o session_id \o ".tex already exists"), {})
    ELSE IF ~mk.ok THEN Out(FS, Ret(mk.err), {})
    ELSE IF ~wr.ok THEN Out(mk.fs, Ret(wr.err), new)
    ELSE IF ~PExists(wr.fs, container_path) THEN Out(wr.fs, Ret(created), new \cup {wr.path})
    ELSE IF ~cr.ok THEN Out(wr.fs, Ret(cr.err), new \cup {wr.path})
    ELSE IF ~Contains(cr.text, SessionMarker)
    THEN Out(wr.fs, Ret(created), new \cup {wr.path, container_path})
    ELSE Out(cw.fs, Ret(created), new \cup {wr.path, container_path})

\* shutil.copy2(src, dst)
Copy2(fs, src, dst) ==
    LET s == Walk(fs, src)
        d == Walk(fs, dst)
        to == IF IsDir(fs, d.path) THEN Append(d.path, Name(s.path)) ELSE d.path IN
    IF ~s.ok \/ ~(IsDir(fs, s.path) \/ IsFile(fs, s.path))
    THEN [ok |-> FALSE, err |-> "raise FileNotFoundError", fs |-> fs, path |-> to]
    ELSE IF IsDir(fs, s.path)
    THEN [ok |-> FALSE, err |-> "raise IsADirectoryError", fs |-> fs, path |-> to]
    ELSE IF ~d.ok
    THEN [ok |-> FALSE, err |-> "raise FileNotFoundError", fs |-> fs, path |-> to]
    ELSE IF to = s.path
    THEN [ok |-> FALSE, err |-> "raise SameFileError", fs |-> fs, path |-> to]
    ELSE WriteText(fs, to, fs.files[s.path])

\* what one subprocess.run can do: exit 0, exit non-zero, or raise
Outcomes == {"0", "nonzero", "FileNotFoundError", "TimeoutExpired"}

RECURSIVE RunSteps_strict(_, _, _, _)
\* a variant of the loop in which a non-zero exit of any step ends the build
RunSteps_strict(steps, outs, master, ran) ==
    IF steps = <<>> THEN [ran |-> ran, msg |-> ""]
    ELSE IF Head(outs) = "FileNotFoundError"
    THEN [ran |-> ran, msg |-> "Error: pdflatex not installed. Install TeX Live."]
    ELSE IF Head(outs) = "TimeoutExpired"
    THEN [ran |-> Append(ran, Head(steps)),
          msg |-> "Error: compilation timed out after 120 seconds"]
    ELSE IF Head(outs) = "nonzero"
    THEN [ran |-> Append(ran, Head(steps)),
          msg |-> IF master THEN "Compilation failed at pdflatex" ELSE "Compilation failed"]
    ELSE RunSteps_strict(Tail(steps), Tail(outs), master, Append(ran, Head(steps)))

RECURSIVE RunSteps(_, _, _, _)
\* the loop over the build steps: the programs started so far (ran) and the
\* message of the early return, "" when every step passed
RunSteps(steps, outs, master, ran) ==
    IF steps = <<>> THEN [ran |-> ran, msg |-> ""]
    ELSE IF Head(outs) = "FileNotFoundError"
    THEN [ran |-> ran, msg |-> "Error: pdflatex not installed. Install TeX Live."]
    ELSE IF Head(outs) = "TimeoutExpired"
    THEN [ran |-> Append(ran, Head(steps)),
          msg |-> "Error: compilation timed out after 120 seconds"]
    ELSE IF Head(outs) = "nonzero" /\ Head(steps) = "pdflatex"
    THEN [ran |-> Append(ran, Head(steps)),
          msg |-> IF master THEN "Compilation failed at pdflatex" ELSE "Compilation failed"]
    ELSE RunSteps(Tail(steps), Tail(outs), master, Append(ran, Head(steps)))

\* NotebookTools.compile_notes; outs are the outcomes of the external programs
\* and made says whether pdflatex, once started, left a PDF beside the source
compile_notes(target, outs, made) ==
    LET master   == target = "master"
        tex_path == IF master THEN master_path
                    ELSE Join(Join(latex_dir, target), target \o ".tex")
        tex      == Walk(FS, tex_path).path
        pdf_path == WithSuffix(tex_path, ".tex", ".pdf")
        steps    == IF master THEN <<"pdflatex", "makeindex", "pdflatex">>
                    ELSE <<"pdflatex">>
        run      == RunSteps(steps, outs, master, <<>>)
        pw       == WriteText(FS, pdf_path, <<"%PDF">>)
        fs1      == IF made /\ run.ran # <<>> /\ pw.ok THEN pw.fs ELSE FS
        dest     == IF master THEN Append(class_dir, Name(class_dir) \o "-Notes.pdf")
                    ELSE Join(class_dir, target \o ".pdf")
        cp       == Copy2(fs1, pdf_path, dest) IN
    IF ~PExists(FS, tex_path)
    THEN Out(FS, Ret("Error: " \o Name(tex_path) \o " not found"), {})
    ELSE IF run.msg # "" THEN Out(fs1, [msg |-> run.msg, data |-> run.ran],
                                  IF run.ran # <<>> THEN {tex} ELSE {})
    ELSE IF ~PExists(fs1, pdf_path)
    THEN Out(fs1, [msg |-> "Error: PDF not generated", data |-> run.ran], {tex})
    ELSE IF ~cp.ok THEN Out(fs1, [msg |-> cp.err, data |-> run.ran], {tex})
    ELSE Out(cp.fs, [msg |-> "Compiled successfully", data |-> run.ran],
             {tex, Walk(fs1, pdf_path).path})

-----------------------------------------------------------------------------
(* The mutation surface as actions *)

\* the paths that exist in one of two file systems and differ between them
Changed(a, b) ==
    {p \in a.dirs \cup b.dirs \cup DOMAIN a.files \cup DOMAIN b.files :
        \/ (p \in a.dirs) # (p \in b.dirs)
        \/ (p \in DOMAIN a.files) # (p \in DOMAIN b.files)
        \/ (p \in DOMAIN a.files /\ p \in DOMAIN b.files /\ a.files[p] # b.files[p])}

\* one tool call by the agent: the file system and the return value are the
\* call's, and the history variables record it
Do(name, args, out) ==
    LET created == StartsWith(out.ret.msg, "Created")
        byCreate == name \in {"create_lecture", "create_session"} IN
    /\ dirs' = out.fs.dirs
    /\ files' = out.fs.files
    /\ ret' = out.ret
    /\ touched' = out.touched \cup Changed(FS, out.fs)
    /\ lastOp' = [name |-> name, args |-> args]
    /\ regLog' = [lec |-> IF name = "create_lecture" /\ created
                          THEN Append(regLog.lec, args[1]) ELSE regLog.lec,
                  ses |-> IF name = "create_session" /\ created
                          THEN Append(regLog.ses, args[1]) ELSE regLog.ses,
                  pure |-> regLog.pure /\
                           (byCreate \/ {master_path, container_path} \cap Changed(FS, out.fs) = {})]
    /\ UNCHANGED <<passVars, chat, ctx>>

ReadFile(paths) == \E path \in paths : Do("read_file", <<path>>, read_file(path))

WriteFile(paths, contents) ==
    \E path \in paths, content \in contents :
        Do("write_file", <<path, content>>, write_file(path, content))

ListFiles(paths) == \E subdir \in paths : Do("list_files", <<subdir>>, list_files(subdir))

CreateLecture(nums, dates, topics) ==
    \E lecture_num \in nums, date \in dates, topic \in topics :
        Do("create_lecture", <<lecture_num, date, topic>>,
           create_lecture(lecture_num, date, topic))

CreateSession(dates, coveredTexts) ==
    \E date \in dates, covered \in coveredTexts :
        Do("create_session", <<date, covered>>,
           create_session(date, "Review", "summary", "limits", covered, "read ahead"))

\* the outcomes of the three external programs of one build
Runs == [1..3 -> Outcomes]

CompileNotes(targets, runs) ==
    \E target \in targets, outs \in runs, made \in BOOLEAN :
        Do("compile_notes", <<target, outs, made>>, compile_notes(target, outs, made))

-----------------------------------------------------------------------------
(* The background passes: factcheck.py and progress.py *)

\* the latest clock value of a run
MaxTime == 3

\* how many session documents a run creates at most
MaxSessions == 1

\* tracked documents: notes/latex/lecNN/lecNN.tex and hw/<id>/submission/*.tex
Lectures == {"lec01", "lec02"}

Submissions == {"hw1"}

Docs == Lectures \cup Submissions

\* pass instances: the fact-check pass a wrap-up request starts, the one
\* POST /fact-check/trigger starts, and a progress pass
FcPasses == {"fc1", "fc2"}

PgPasses == {"pg1"}

Passes == FcPasses \cup PgPasses

Kind(p) == IF p \in FcPasses THEN "fc" ELSE "pg"

\* the documents a pass kind tracks
Tracked(k) == IF k = "fc" THEN Lectures ELSE Docs

NoReport == [timestamp |-> 0, files_checked |-> <<>>, findings |-> <<>>]

\* a pass that is not running
Idle ==
    [pc |-> "idle", last_run |-> 0, changed |-> <<>>, run_ts |-> 0, start_ts |-> 0,
     answer |-> "", fresh |-> {}, edited |-> FALSE, result |-> ""]

\* a pass at its return statement: s is its local state, result the value returned
Done(s, result) == [s EXCEPT !.pc = "done", !.result = result]

\* _load_state(class_dir).get("last_run", 0)
load_state(k) == cursor[k]

\* a variant of the filter that also keeps a lecture modified at the cursor
find_changed_lectures_inclusive(since) ==
    Sorted({d \in Lectures : mtime[d] # 0 /\ mtime[d] >= since})

\* _find_changed_lectures(class_dir, since)
find_changed_lectures(since) ==
    Sorted({d \in Lectures : mtime[d] # 0 /\ mtime[d] > since})

\* a variant of the filter that looks at the lectures only
find_edited_files_lectures_only(since) ==
    Sorted({d \in Lectures : mtime[d] # 0 /\ mtime[d] > since})

\* _find_edited_files(class_dir, since): the lectures, then the submissions
find_edited_files(since) ==
    Sorted({d \in Lectures : mtime[d] # 0 /\ mtime[d] > since})
    \o Sorted({d \in Submissions : mtime[d] # 0 /\ mtime[d] > since})

\* changed_since of a pass kind
changed_since(k, since) ==
    IF k = "fc" THEN find_changed_lectures(since) ELSE find_edited_files(since)

Range(s) == {s[i] : i \in DOMAIN s}

\* time.time() passes
Tick ==
    /\ now < MaxTime
    /\ now' = now + 1
    /\ UNCHANGED <<mtime, sessions, cursor, report, progress, pass, included, quiet, corrupt>>
    /\ UNCHANGED toolVars

\* the foreground writes a tracked document (write_file, create_lecture)
WriteDoc(docs) ==
    \E d \in docs :
        /\ mtime' = [mtime EXCEPT ![d] = now]
        /\ included' = [k \in DOMAIN included |-> included[k] \ {d}]
        /\ quiet' = [k \in DOMAIN quiet |-> FALSE]
        /\ UNCHANGED corrupt
        /\ pass' = [p \in Passes |->
                      IF pass[p].pc \in {"idle", "done"} THEN pass[p]
                      ELSE [pass[p] EXCEPT !.fresh = @ \ {d}, !.edited = TRUE]]
        /\ UNCHANGED <<now, sessions, cursor, report, progress>>
        /\ UNCHANGED toolVars

\* the foreground overwrites the state file of a pass kind with text that is
\* not JSON (write_file(".fact-check-state.json", ...), ".progress-state.json")
WriteStateFile ==
    \E k \in {"fc", "pg"} :
        /\ corrupt' = corrupt \cup {k}
        /\ UNCHANGED <<now, mtime, sessions, cursor, report, progress, pass, included, quiet>>
        /\ UNCHANGED toolVars

\* the foreground creates a session document (create_session)
NewSession ==
    /\ sessions < MaxSessions
    /\ sessions' = sessions + 1
    /\ UNCHANGED <<now, mtime, cursor, report, progress, pass, included, quiet, corrupt>>
    /\ UNCHANGED toolVars

\* one step of pass p: its local state becomes s, the rest as given
Step(p, s) == pass' = [pass EXCEPT ![p] = s]

\* run_fact_check, lines 158-159: read the state file
FcLoad(p) ==
    /\ pass[p].pc = "idle"
    /\ IF "fc" \in corrupt
       THEN Step(p, Done([Idle EXCEPT !.start_ts = now], "raise JSONDecodeError"))
       ELSE Step(p, [Idle EXCEPT !.pc = "find", !.last_run = load_state("fc"),
                                 !.start_ts = now])
    /\ UNCHANGED <<now, mtime, sessions, cursor, report, progress, included, quiet, corrupt>>
    /\ UNCHANGED toolVars

\* run_fact_check, lines 160-164: compute the delta set, return when it is empty
FcFind(p) ==
    LET changed == find_changed_lectures(pass[p].last_run) IN
    /\ pass[p].pc = "find"
    /\ IF changed = <<>>
       THEN Step(p, Done(pass[p], "No lectures changed since last fact-check."))
       ELSE Step(p, [pass[p] EXCEPT !.pc = "read", !.changed = changed])
    /\ UNCHANGED <<now, mtime, sessions, cursor, report, progress, included, quiet, corrupt>>
    /\ UNCHANGED toolVars

\* run_fact_check, lines 167-174: read the content of the changed lectures
FcRead(p) ==
    /\ pass[p].pc = "read"
    /\ Step(p, [pass[p] EXCEPT !.pc = "stamp", !.fresh = Range(pass[p].changed)])
    /\ UNCHANGED <<now, mtime, sessions, cursor, report, progress, included, quiet, corrupt>>
    /\ UNCHANGED toolVars

\* a variant of the stamp that persists the cursor as soon as it is taken
FcStamp_save(p) ==
    /\ pass[p].pc = "stamp"
    /\ Step(p, [pass[p] EXCEPT !.pc = "generate", !.run_ts = now])
    /\ cursor' = [cursor EXCEPT !["fc"] = now]
    /\ UNCHANGED <<now, mtime, sessions, report, progress, included, quiet, corrupt>>
    /\ UNCHANGED toolVars

\* run_fact_check, line 188: run_ts = time.time()
FcStamp(p) ==
    /\ pass[p].pc = "stamp"
    /\ Step(p, [pass[p] EXCEPT !.pc = "generate", !.run_ts = now])
    /\ UNCHANGED <<now, mtime, sessions, cursor, report, progress, included, quiet, corrupt>>
    /\ UNCHANGED toolVars

\* what the generator's answer can be: an exception, a JSON list of findings,
\* text that parses to no list, or no content
FcAnswers == {"raise", "list", "malformed", "none"}

\* a variant of the generation step whose exception handler persists the cursor
FcGenerate_persist(p) ==
    /\ pass[p].pc = "generate"
    /\ \E answer \in FcAnswers :
         IF answer = "raise"
         THEN /\ Step(p, Done([pass[p] EXCEPT !.answer = answer], "Fact-check failed"))
              /\ cursor' = [cursor EXCEPT !["fc"] = pass[p].run_ts]
         ELSE /\ Step(p, [pass[p] EXCEPT !.pc = "write", !.answer = answer])
              /\ UNCHANGED cursor
    /\ UNCHANGED <<now, mtime, sessions, report, progress, included, quiet, corrupt>>
    /\ UNCHANGED toolVars

\* run_fact_check, lines 190-212 and 233-235: the generation call and the parse
FcGenerate(p) ==
    /\ pass[p].pc = "generate"
    /\ \E answer \in FcAnswers :
         IF answer = "raise"
         THEN Step(p, Done([pass[p] EXCEPT !.answer = answer], "Fact-check failed"))
         ELSE Step(p, [pass[p] EXCEPT !.pc = "write", !.answer = answer])
    /\ UNCHANGED <<now, mtime, sessions, cursor, report, progress, included, quiet, corrupt>>
    /\ UNCHANGED toolVars

\* a variant of the parse that keeps whatever text the generator answered
parse_findings_raw(answer) ==
    IF answer \in {"list", "malformed"} THEN <<"finding">> ELSE <<>>

\* run_fact_check, lines 195-212: the findings parsed from the answer; no
\* content stands for "[]", and text that gives no JSON list gives no findings
parse_findings(answer) ==
    IF answer = "list" THEN <<"finding">> ELSE <<>>

\* a variant that stamps the report with the time of the write
FcWrite_now(p) ==
    /\ pass[p].pc = "write"
    /\ report' = [timestamp |-> now,
                  files_checked |-> pass[p].changed,
                  findings |-> parse_findings(pass[p].answer)]
    /\ Step(p, [pass[p] EXCEPT !.pc = "save"])
    /\ UNCHANGED <<now, mtime, sessions, cursor, progress, included, quiet, corrupt>>
    /\ UNCHANGED toolVars

\* run_fact_check, lines 215-221: overwrite the report
FcWrite(p) ==
    /\ pass[p].pc = "write"
    /\ report' = [timestamp |-> pass[p].run_ts,
                  files_checked |-> pass[p].changed,
                  findings |-> parse_findings(pass[p].answer)]
    /\ Step(p, [pass[p] EXCEPT !.pc = "save"])
    /\ UNCHANGED <<now, mtime, sessions, cursor, progress, included, quiet, corrupt>>
    /\ UNCHANGED toolVars

\* a variant in which the two passes keep their cursor in one state file
SaveState_shared(p) ==
    /\ pass[p].pc = "save"
    /\ cursor' = [k \in DOMAIN cursor |-> pass[p].run_ts]
    /\ included' = [included EXCEPT ![Kind(p)] = @ \cup pass[p].fresh]
    /\ quiet' = [quiet EXCEPT ![Kind(p)] = ~pass[p].edited]
    /\ corrupt' = corrupt \ {Kind(p)}
    /\ Step(p, Done(pass[p], "raw"))

\* _save_state(class_dir, {"last_run": run_ts}) and the return of a pass
SaveState(p) ==
    /\ pass[p].pc = "save"
    /\ cursor' = [cursor EXCEPT ![Kind(p)] = pass[p].run_ts]
    /\ included' = [included EXCEPT ![Kind(p)] = @ \cup pass[p].fresh]
    /\ quiet' = [quiet EXCEPT ![Kind(p)] = ~pass[p].edited]
    /\ corrupt' = corrupt \ {Kind(p)}
    /\ Step(p, Done(pass[p], "raw"))

\* the pass has returned: the task ends
Return(p) ==
    /\ pass[p].pc = "done"
    /\ Step(p, Idle)
    /\ UNCHANGED <<now, mtime, sessions, cursor, report, progress, included, quiet, corrupt>>
    /\ UNCHANGED toolVars

\* run_fact_check, lines 224-231
FcSave(p) ==
    /\ SaveState(p)
    /\ UNCHANGED <<now, mtime, sessions, report, progress>>
    /\ UNCHANGED toolVars

\* run_progress_update, lines 183-184: read the state file
PgLoad(p) ==
    /\ pass[p].pc = "idle"
    /\ IF "pg" \in corrupt
       THEN Step(p, Done([Idle EXCEPT !.start_ts = now], "raise JSONDecodeError"))
       ELSE Step(p, [Idle EXCEPT !.pc = "gather", !.last_run = load_state("pg"),
                                 !.start_ts = now])
    /\ UNCHANGED <<now, mtime, sessions, cursor, report, progress, included, quiet, corrupt>>
    /\ UNCHANGED toolVars

\* a variant of the gathering step that returns when the delta set is empty
PgGather_empty_delta(p) ==
    LET edited_files == find_edited_files(pass[p].last_run) IN
    /\ pass[p].pc = "gather"
    /\ IF edited_files = <<>>
       THEN Step(p, Done(pass[p], "No sessions to synthesize."))
       ELSE Step(p, [pass[p] EXCEPT !.pc = "read", !.changed = edited_files])
    /\ UNCHANGED <<now, mtime, sessions, cursor, report, progress, included, quiet, corrupt>>
    /\ UNCHANGED toolVars

\* run_progress_update, lines 187-193: read the narrative and the sessions,
\* compute the delta set, return when there is no session
PgGather(p) ==
    LET all_sessions == sessions > 0
        edited_files == find_edited_files(pass[p].last_run) IN
    /\ pass[p].pc = "gather"
    /\ IF ~all_sessions
       THEN Step(p, Done(pass[p], "No sessions to synthesize."))
       ELSE Step(p, [pass[p] EXCEPT !.pc = "read", !.changed = edited_files])
    /\ UNCHANGED <<now, mtime, sessions, cursor, report, progress, included, quiet, corrupt>>
    /\ UNCHANGED toolVars

\* run_progress_update, lines 196-203: read the content of the edited files
PgRead(p) ==
    /\ pass[p].pc = "read"
    /\ Step(p, [pass[p] EXCEPT !.pc = "stamp", !.fresh = Range(pass[p].changed)])
    /\ UNCHANGED <<now, mtime, sessions, cursor, report, progress, included, quiet, corrupt>>
    /\ UNCHANGED toolVars

\* run_progress_update, line 216: run_ts = time.time()
PgStamp(p) ==
    /\ pass[p].pc = "stamp"
    /\ Step(p, [pass[p] EXCEPT !.pc = "generate", !.run_ts = now])
    /\ UNCHANGED <<now, mtime, sessions, cursor, report, progress, included, quiet, corrupt>>
    /\ UNCHANGED toolVars

\* what the generator's answer can be: an exception, LaTeX text, or blank text
PgAnswers == {"raise", "text", "blank"}

\* run_progress_update, lines 228-234 and 269-271: the generation call
PgGenerate(p) ==
    /\ pass[p].pc = "generate"
    /\ \E answer \in PgAnswers :
         CASE answer = "raise" ->
                Step(p, Done([pass[p] EXCEPT !.answer = answer], "Progress update failed"))
           [] answer = "blank" ->
                Step(p, Done([pass[p] EXCEPT !.answer = answer],
                             "Progress agent returned empty response."))
           [] answer = "text"  ->
                Step(p, [pass[p] EXCEPT !.pc = "write", !.answer = answer])
    /\ UNCHANGED <<now, mtime, sessions, cursor, report, progress, included, quiet, corrupt>>
    /\ UNCHANGED toolVars

\* a variant that writes the narrative into a lecture document
PgWrite_lecture(p) ==
    /\ pass[p].pc = "write"
    /\ progress' = [timestamp |-> pass[p].run_ts]
    /\ mtime' = [mtime EXCEPT !["lec01"] = now]
    /\ Step(p, [pass[p] EXCEPT !.pc = "save"])
    /\ UNCHANGED <<now, sessions, cursor, report, included, quiet, corrupt>>
    /\ UNCHANGED toolVars

\* run_progress_update, lines 236-256: wrap the text and overwrite progress.tex
\* (notes/latex/progress/progress.tex, no document _find_edited_files looks at)
PgWrite(p) ==
    /\ pass[p].pc = "write"
    /\ progress' = [timestamp |-> pass[p].run_ts]
    /\ Step(p, [pass[p] EXCEPT !.pc = "save"])
    /\ UNCHANGED <<now, mtime, sessions, cursor, report, included, quiet, corrupt>>
    /\ UNCHANGED toolVars

\* run_progress_update, lines 259-267
PgSave(p) ==
    /\ SaveState(p)
    /\ UNCHANGED <<now, mtime, sessions, report, progress>>
    /\ UNCHANGED toolVars

NoProgress == [timestamp |-> 0]

-----------------------------------------------------------------------------
(* Initial states and specifications *)

-----------------------------------------------------------------------------
(* context.py: the notebook context of a chat request.  A document read with *)
(* read_text is one string, its lines joined by "\n".                        *)

\* sep.join(parts)
JoinWith(parts, sep) ==
    LET \* parts[a], sep, ..., sep, parts[b], by halves
        RECURSIVE Between(_, _, _)
        Between(t, a, b) ==
            IF a > b THEN ""
            ELSE IF a = b THEN t[a]
            ELSE Between(t, a, (a + b) \div 2) \o sep \o Between(t, (a + b) \div 2 + 1, b)
    IN CHOOSE r \in {Between(t, 1, Len(t)) : t \in {parts}} : TRUE

\* s[i - 1], "" outside s
At(s, i) == IF i >= 1 /\ i <= Len(s) THEN SubSeq(s, i, i) ELSE ""

RECURSIVE SkipWhile(_, _, _)
\* the first position at or after i whose character is not in cs (a greedy
\* character class of a pattern)
SkipWhile(s, cs, i) == IF At(s, i) \in cs THEN SkipWhile(s, cs, i + 1) ELSE i

\* s[i - 1:].startswith(t)
Matches(s, t, i) == i >= 1 /\ i + Len(t) - 1 <= Len(s) /\ SubSeq(s, i, i + Len(t) - 1) = t

\* extract_lecture_metadata; a field the document does not set reads "?", the
\* default of each meta.get in the formatters
extract_lecture_metadata(tex_content) ==
    LET \* the value of F at v, with v computed once and bound to a name
        With(v, F(_)) == CHOOSE r \in {F(x) : x \in {v}} : TRUE
    IN
    With(tex_content, LAMBDA s :
    LET \* the characters \w matches
        WordChars == {SubSeq("ABCDEFGHIJKLMNOPQRSTUVWXYZabcdefghijklmnopqrstuvwxyz0123456789_",
                             i, i) : i \in 1..63}
        pre == "\\renewcommand{\\"
        \* _RE_RENEW.finditer from position i on: the <<name, value>> of each
        \* \renewcommand{\name}{value}; the name ends at b and the value at c;
        \* the value is at least one character, runs to the next "}" and holds
        \* no line end
        RECURSIVE RenewFrom(_)
        RenewFrom(i) ==
            With(Find(s, pre, i), LAMBDA a :
            IF a = 0 THEN <<>>
            ELSE With(SkipWhile(s, WordChars, a + Len(pre)), LAMBDA b :
                 With(Find(s, "}", b + 3), LAMBDA c :
                 IF /\ b > a + Len(pre) /\ Matches(s, "}{", b) /\ c # 0
                    /\ Find(SubSeq(s, b + 2, c - 1), "\n", 1) = 0
                 THEN << <<SubSeq(s, a + Len(pre), b - 1), SubSeq(s, b + 2, c - 1)>> >>
                      \o RenewFrom(c + 1)
                 ELSE RenewFrom(a + 1))))
        \* the stripped bodies of \begin{env}(.*?)\end{env}, from position i on
        RECURSIVE EnvFrom(_, _)
        EnvFrom(env, i) ==
            LET open  == "\\begin{" \o env \o "}"
                close == "\\end{" \o env \o "}"
            IN With(Find(s, open, i), LAMBDA a :
               IF a = 0 THEN <<>>
               ELSE With(Find(s, close, a + Len(open)), LAMBDA b :
                    IF b = 0 THEN <<>>
                    ELSE <<Strip(SubSeq(s, a + Len(open), b - 1))>>
                         \o EnvFrom(env, b + Len(close))))
        \* metadata[field]: the value of the last \renewcommand of cmd
        Field(matches, cmd) ==
            LET hits == SelectSeq(matches, LAMBDA m : m[1] = cmd) IN
            IF hits = <<>> THEN "?" ELSE hits[Len(hits)][2]
    IN With(RenewFrom(1), LAMBDA matches :
       With(EnvFrom("lecturesummary", 1), LAMBDA summaries :
       [num          |-> Field(matches, "lecturenum"),
        date         |-> Field(matches, "lecturedate"),
        topic        |-> Field(matches, "lecturetopic"),
        summary      |-> IF summaries = <<>> THEN "" ELSE summaries[1],
        summaryboxes |-> EnvFrom("summarybox", 1)])))

\* extract_preamble_commands
extract_preamble_commands(master_tex) ==
    LET idx == Find(master_tex, "\\begin{document}", 1) IN
    IF idx = 0 THEN master_tex ELSE SubSeq(master_tex, 1, idx - 1)

\* the entries of directory p (iterdir)
Entries(fs, p) == {q \in fs.dirs \cup DOMAIN fs.files : q # <<>> /\ Parent(q) = p}

\* sorted(p.iterdir()), as names
SortedNames(fs, p) == Sorted({Name(q) : q \in Entries(fs, p)})

\* Path.suffix == ".tex"
IsTex(name) == EndsWith(name, ".tex") /\ Len(name) > 4

\* discover_lectures: notes/latex/lecXX/lecXX.tex, sorted by directory name
discover_lectures(fs) ==
    LET names == SelectSeq(SortedNames(fs, latex_dir),
                    LAMBDA n : /\ IsDir(fs, Append(latex_dir, n))
                               /\ StartsWith(n, "lec")
                               /\ PExists(fs, latex_dir \o <<n, n \o ".tex">>))
    IN IF ~PExists(fs, latex_dir) THEN <<>>
       ELSE CHOOSE r \in {[i \in DOMAIN ns |-> latex_dir \o <<ns[i], ns[i] \o ".tex">>] :
                          ns \in {names}} : TRUE

\* Path.read_text() as one string
ReadStr(fs, p) == CHOOSE s \in {JoinWith(lines, "\n") : lines \in {ReadText(fs, p).text}} : TRUE

\* _read_safe
read_safe(fs, p) == IF PExists(fs, p) THEN ReadStr(fs, p) ELSE ""

\* _all_lecture_metadata
all_lecture_metadata(fs) ==
    CHOOSE r \in {[i \in DOMAIN lectures |->
                      extract_lecture_metadata(ReadStr(fs, lectures[i]))] :
                  lectures \in {discover_lectures(fs)}} : TRUE

\* _format_lecture_index
format_lecture_index(all_meta) ==
    JoinWith(<<"### Lecture Index">> \o
             [i \in DOMAIN all_meta |->
                "- Lecture " \o all_meta[i].num \o " (" \o all_meta[i].date \o "): "
                    \o all_meta[i].topic],
             "\n")

\* _format_lecture_summaries
format_lecture_summaries(all_meta) ==
    JoinWith(<<"### Lecture Summaries">> \o
             Flatten([i \in DOMAIN all_meta |->
                     << "\n**Lecture " \o all_meta[i].num \o ": " \o all_meta[i].topic \o "**",
                        IF all_meta[i].summary # "" THEN all_meta[i].summary
                        ELSE "(no summary available)" >>]),
             "\n")

\* _format_summaryboxes
format_summaryboxes(all_meta) ==
    JoinWith(<<"### Section Summaries">> \o
             Flatten([i \in DOMAIN all_meta |->
                     IF all_meta[i].summaryboxes = <<>> THEN <<>>
                     ELSE <<"\n**Lecture " \o all_meta[i].num \o " sections:**">> \o
                          [j \in DOMAIN all_meta[i].summaryboxes |->
                              LET box == all_meta[i].summaryboxes[j] IN
                              "- " \o SubSeq(box, 1, IF Len(box) > 200 THEN 200 ELSE Len(box))]]),
             "\n")

\* _list_sessions
list_sessions(fs) ==
    LET names == SelectSeq(SortedNames(fs, sessions_dir),
                           LAMBDA n : StartsWith(n, "session-")) IN
    IF ~PExists(fs, sessions_dir) THEN "No sessions directory found."
    ELSE IF names = <<>> THEN "No session logs yet."
    ELSE "### Existing Sessions\n" \o
         JoinWith([i \in DOMAIN names |-> "- " \o names[i]], "\n")

hw_root == class_dir \o <<"hw">>

\* _list_hw_dirs
list_hw_dirs(fs) ==
    LET names == SelectSeq(SortedNames(fs, hw_root),
                           LAMBDA n : IsDir(fs, Append(hw_root, n)) /\ StartsWith(n, "hw")) IN
    IF ~PExists(fs, hw_root) THEN "No hw directory found."
    ELSE IF names = <<>> THEN "No homework directories yet."
    ELSE "### Homework Directories\n" \o
         JoinWith([i \in DOMAIN names |-> "- " \o names[i] \o "/"], "\n")

\* _load_page_map: the section titles and pages of master.aux
load_page_map(fs) ==
    LET \* the value of F at v, with v computed once and bound to a name
        With(v, F(_)) == CHOOSE r \in {F(x) : x \in {v}} : TRUE
        aux_path == latex_dir \o <<"master", "master.aux">>
        Digits   == {Digit(d) : d \in 0..9}
        Letters  == {SubSeq("ABCDEFGHIJKLMNOPQRSTUVWXYZabcdefghijklmnopqrstuvwxyz", i, i) :
                        i \in 1..52}
        \* the characters \s matches
        Spaces   == {" ", "\n"}
        \* int(u) for a string of digits
        RECURSIVE ToInt(_)
        ToInt(u) ==
            IF u = "" THEN 0
            ELSE 10 * ToInt(SubSeq(u, 1, Len(u) - 1))
                 + (CHOOSE d \in 0..9 : Digit(d) = SubSeq(u, Len(u), Len(u)))
        \* u.replace(old, new)
        RECURSIVE ReplaceAll(_, _, _)
        ReplaceAll(u, old, new) ==
            With(Find(u, old, 1), LAMBDA i :
            IF i = 0 THEN u
            ELSE With(SubSeq(u, i + Len(old), Len(u)), LAMBDA rest :
                 SubSeq(u, 1, i - 1) \o new \o ReplaceAll(rest, old, new)))
        \* re.sub(r"\\[a-zA-Z]+\s*", "", title)
        RECURSIVE DropCommands(_)
        DropCommands(u) ==
            With(Find(u, "\\", 1), LAMBDA a :
            IF a = 0 THEN u
            ELSE With(SkipWhile(u, Letters, a + 1), LAMBDA b :
                 IF b = a + 1
                 THEN With(SubSeq(u, a + 1, Len(u)), LAMBDA rest :
                      SubSeq(u, 1, a) \o DropCommands(rest))
                 ELSE With(SubSeq(u, SkipWhile(u, Spaces, b), Len(u)), LAMBDA rest :
                      SubSeq(u, 1, a - 1) \o DropCommands(rest))))
        \* re.sub(r"\s+", " ", title), from position i on
        RECURSIVE Squeeze(_, _)
        Squeeze(u, i) ==
            IF i > Len(u) THEN ""
            ELSE IF At(u, i) \in Spaces THEN " " \o Squeeze(u, SkipWhile(u, Spaces, i))
            ELSE At(u, i) \o Squeeze(u, i + 1)
        \* the title as lines 191-198 clean it; the dashes "\u2014" and
        \* "\u2013" are written <em> and <en>
        clean_title(title) ==
            With(DropCommands(Strip(title)), LAMBDA t1 :
            With(ReplaceAll(t1, "\\&", "&"), LAMBDA t2 :
            With(ReplaceAll(t2, "---", "<em>"), LAMBDA t3 :
            With(ReplaceAll(t3, "--", "<en>"), LAMBDA t4 :
            With(ReplaceAll(t4, "{", ""), LAMBDA t5 :
            With(ReplaceAll(t5, "}", ""), LAMBDA t6 :
            With(ReplaceAll(t6, "$", ""), LAMBDA t7 :
            Strip(Squeeze(t7, 1)))))))))
        \* page_map[title] = page for each match with a title: a dict keeps the
        \* place of a title's first entry and the page of its last
        RECURSIVE PageMap(_, _)
        PageMap(entries, acc) ==
            IF entries = <<>> THEN acc
            ELSE With(Head(entries), LAMBDA e :
                 With({i \in DOMAIN acc : acc[i][1] = e[1]}, LAMBDA same :
                 With(IF e[1] = "" THEN acc
                      ELSE IF same = {} THEN Append(acc, e)
                      ELSE [i \in DOMAIN acc |-> IF i \in same THEN e ELSE acc[i]],
                      LAMBDA next : PageMap(Tail(entries), next))))
    IN IF ~PExists(fs, aux_path) THEN ""
       ELSE With(ReadStr(fs, aux_path), LAMBDA s :
            LET \* the end of the lazy group (.+?) that starts before position e:
                \* the first "}" at or after e, on the same line, that
                \* "{digits}" follows; 0 when there is none
                RECURSIVE TitleEnd(_)
                TitleEnd(e) ==
                    IF e > Len(s) \/ At(s, e - 1) = "\n" THEN 0
                    ELSE IF /\ Matches(s, "}{", e)
                            /\ SkipWhile(s, Digits, e + 2) > e + 2
                            /\ At(s, SkipWhile(s, Digits, e + 2)) = "}"
                    THEN e
                    ELSE TitleEnd(e + 1)
                \* the start of the title when the group opens at g: after an
                \* optional \numberline {..} if the rest still matches
                TitleStart(g) ==
                    With(SkipWhile(s, Spaces, g + Len("\\numberline")), LAMBDA n1 :
                    With(Find(s, "}", n1 + 1), LAMBDA n2 :
                    IF /\ Matches(s, "\\numberline", g) /\ At(s, n1) = "{" /\ n2 # 0
                       /\ TitleEnd(n2 + 2) # 0
                    THEN n2 + 1 ELSE g))
                \* pattern.finditer(content) from position i on: the
                \* <<title, page>> of each
                \* \contentsline {section|subsection}{[\numberline {..}]title}{page}
                RECURSIVE ContentsFrom(_)
                ContentsFrom(i) ==
                    With(Find(s, "\\contentsline", i), LAMBDA a :
                    IF a = 0 THEN <<>>
                    ELSE With(SkipWhile(s, Spaces, a + Len("\\contentsline")), LAMBDA k :
                         With(IF Matches(s, "{section}{", k) THEN k + Len("{section}{")
                              ELSE IF Matches(s, "{subsection}{", k)
                              THEN k + Len("{subsection}{") ELSE 0, LAMBDA g :
                         IF g = 0 THEN ContentsFrom(a + 1)
                         ELSE With(TitleStart(g), LAMBDA t0 :
                              With(TitleEnd(t0 + 1), LAMBDA e :
                              IF e = 0 THEN ContentsFrom(a + 1)
                              ELSE With(SkipWhile(s, Digits, e + 2), LAMBDA d :
                                   << <<clean_title(SubSeq(s, t0, e - 1)),
                                        ToInt(SubSeq(s, e + 2, d - 1))>> >>
                                   \o ContentsFrom(d + 1)))))))
            IN With(PageMap(ContentsFrom(1), <<>>), LAMBDA page_map :
               IF page_map = <<>> THEN ""
               ELSE JoinWith(<< "### Page Map (from last compilation)",
                                "Use these page numbers with '#page=N' when linking to the PDF." >>
                             \o [i \in DOMAIN page_map |->
                                   "- " \o page_map[i][1] \o ": page " \o Str(page_map[i][2])],
                             "\n")))

\* the .tex files of directory p, sorted, each as a fenced part under the
\* heading (the loops over submission and explainer directories)
TexParts(fs, p, heading) ==
    LET names == SelectSeq(SortedNames(fs, p), IsTex) IN
    IF ~PExists(fs, p) THEN <<>>
    ELSE [i \in DOMAIN names |->
            heading \o names[i] \o "\n'''latex\n" \o ReadStr(fs, Append(p, names[i]))
                \o "\n'''"]

\* build_context(class_dir, mode, hw_id): the bundle, or the exception of an
\* iterdir on a file or of a read_text on a directory.  The backquote of a
\* code fence is written as an apostrophe; hw_id "" is None.
build_context(fs, mode, hw_id) ==
    LET \* the value of F at v, with v computed once and bound to a name
        With(v, F(_)) == CHOOSE r \in {F(x) : x \in {v}} : TRUE
    IN
    With(all_lecture_metadata(fs), LAMBDA all_meta :
    With(discover_lectures(fs), LAMBDA lectures :
    LET syllabus_path == latex_dir \o <<"syllabus", "syllabus.tex">>
        glossary_path == latex_dir \o <<"glossary", "glossary.tex">>
        assignments_path == latex_dir \o <<"assignments", "assignments.tex">>
        hw_dir == Join(hw_root, hw_id)
        explainers == Append(hw_dir, "explainers")
        Fenced(heading, text) == heading \o "\n'''latex\n" \o text \o "\n'''"
        \* if text: parts.append(part)
        IfAny(text, part) == IF text # "" THEN <<part>> ELSE <<>>
        syllabus == read_safe(fs, syllabus_path)
        context_lec ==
            LET last_two == IF Len(lectures) >= 2
                            THEN SubSeq(lectures, Len(lectures) - 1, Len(lectures))
                            ELSE lectures
            IN << Fenced("### LaTeX Preamble (available commands)",
                         extract_preamble_commands(read_safe(fs, master_path))),
                  Fenced("### Lecture Template (temp.tex)", read_safe(fs, template_path)) >>
               \o [i \in DOMAIN last_two |->
                     Fenced("### Full content: " \o Name(Parent(last_two[i])),
                            ReadStr(fs, last_two[i]))]
               \o <<format_lecture_index(all_meta)>>
               \o IfAny(syllabus, Fenced("### Syllabus", syllabus))
        context_rev ==
            LET glossary == read_safe(fs, glossary_path) IN
            <<format_lecture_summaries(all_meta), format_summaryboxes(all_meta)>>
            \o IfAny(glossary, Fenced("### Glossary", glossary))
        context_work ==
            LET assignment  == read_safe(fs, Append(hw_dir, "assignment.txt"))
                edirs       == SelectSeq(SortedNames(fs, explainers),
                                         LAMBDA n : PIsDir(fs, Append(explainers, n)))
                assignments == read_safe(fs, assignments_path)
            IN (IF hw_id # ""
                THEN << IF assignment # ""
                        THEN "### Assignment (" \o hw_id \o ")\n" \o assignment
                        ELSE "### Assignment (" \o hw_id \o ")\nNo assignment.txt found for "
                                \o hw_id \o "." >>
                     \o TexParts(fs, Append(hw_dir, "submission"), "### Current submission: ")
                     \o (IF ~PExists(fs, explainers) THEN <<>>
                         ELSE Flatten([i \in DOMAIN edirs |->
                                 TexParts(fs, Append(explainers, edirs[i]), "### Explainer: ")]))
                ELSE << "No homework specified. Available homework directories:",
                        list_hw_dirs(fs) >>)
               \o IfAny(assignments, Fenced("### Assignments Overview", assignments))
               \o <<format_lecture_summaries(all_meta)>>
        context_done ==
            LET sessions_tex == read_safe(fs, container_path) IN
            <<format_lecture_index(all_meta), list_sessions(fs)>>
            \o IfAny(sessions_tex, Fenced("### sessions.tex", sessions_tex))
        context_default ==
            IfAny(syllabus, Fenced("### Syllabus", syllabus))
            \o <<format_lecture_summaries(all_meta), list_hw_dirs(fs), list_sessions(fs)>>
        parts == CASE mode = "lec"  -> context_lec
                   [] mode = "rev"  -> context_rev
                   [] mode = "work" -> context_work
                   [] mode = "done" -> context_done
                   [] OTHER         -> context_default
        tex(p) == {q \in Entries(fs, p) : IsTex(Name(q))}
        \* the paths the call reads with read_text
        reads ==
            {lectures[i] : i \in DOMAIN lectures} \cup {latex_dir \o <<"master", "master.aux">>}
            \cup (CASE mode = "lec"  -> {master_path, template_path, syllabus_path}
                    [] mode = "rev"  -> {glossary_path}
                    [] mode = "work" ->
                         {assignments_path} \cup
                         (IF hw_id = "" THEN {}
                          ELSE {Append(hw_dir, "assignment.txt")}
                               \cup tex(Append(hw_dir, "submission"))
                               \cup UNION {tex(d) : d \in Entries(fs, explainers)})
                    [] mode = "done" -> {container_path}
                    [] OTHER         -> {syllabus_path})
        \* the paths the call lists with iterdir when they exist
        lists ==
            {latex_dir} \cup
            (CASE mode = "work" -> IF hw_id = "" THEN {hw_root}
                                   ELSE {Append(hw_dir, "submission"), explainers}
               [] mode = "done" -> {sessions_dir}
               [] mode \in {"lec", "rev"} -> {}
               [] OTHER -> {hw_root, sessions_dir})
    IN IF \E p \in lists : IsFile(fs, p) THEN "raise NotADirectoryError"
       ELSE IF \E p \in reads : IsDir(fs, p) THEN "raise IsADirectoryError"
       ELSE With(load_page_map(fs), LAMBDA page_map :
            JoinWith(parts \o IfAny(page_map, page_map), "\n\n"))))

\* no call of build_context yet
NoCtx == [called |-> FALSE, mode |-> "", hw_id |-> "", out |-> "",
          fs |-> [dirs |-> {}, files |-> <<>>], repeated |-> FALSE, reflected |-> FALSE]

\* the call repeats the arguments of the call before it
Again(mode, hw_id) == ctx.called /\ ctx.mode = mode /\ ctx.hw_id = hw_id

\* a variant that answers a repeated request from the text of the call before
BuildContext_cached(modes, hw_ids) ==
    \E mode \in modes, hw_id \in hw_ids :
        LET out == IF Again(mode, hw_id) THEN ctx.out ELSE build_context(FS, mode, hw_id) IN
        /\ ctx' = [called |-> TRUE, mode |-> mode, hw_id |-> hw_id, out |-> out, fs |-> FS,
                   repeated |-> ctx.repeated \/ (Again(mode, hw_id) /\ ctx.fs = FS),
                   reflected |-> ctx.reflected \/ (Again(mode, hw_id) /\ ctx.out # out)]
        /\ UNCHANGED <<dirs, files, ret, touched, lastOp, regLog, chat, passVars>>

\* server.py, line 146: context = build_context(class_dir, mode.name, hw_id=hw_id).
\* ctx records the call: its arguments, the workspace it saw, what it returned,
\* whether a call has repeated the one before it on the same workspace, and
\* whether one has answered otherwise than the one before it
BuildContext(modes, hw_ids) ==
    \E mode \in modes, hw_id \in hw_ids :
        LET out == build_context(FS, mode, hw_id) IN
        /\ ctx' = [called |-> TRUE, mode |-> mode, hw_id |-> hw_id, out |-> out, fs |-> FS,
                   repeated |-> ctx.repeated \/ (Again(mode, hw_id) /\ ctx.fs = FS),
                   reflected |-> ctx.reflected \/ (Again(mode, hw_id) /\ ctx.out # out)]
        /\ UNCHANGED <<dirs, files, ret, touched, lastOp, regLog, chat, passVars>>

-----------------------------------------------------------------------------
(* server.py: one chat request and the background tasks it starts *)

\* the most content events a stream sends
MaxChunks == 2

\* Mode.name
Modes == {"lec", "rev", "work", "done", "default"}

\* str.lower, for the letters A to Z
Lower(s) ==
    LET upper == "ABCDEFGHIJKLMNOPQRSTUVWXYZ"
        lower == "abcdefghijklmnopqrstuvwxyz"
        RECURSIVE LowerFrom(_)
        LowerFrom(i) ==
            IF i > Len(s) THEN ""
            ELSE (IF Find(upper, At(s, i), 1) = 0 THEN At(s, i)
                  ELSE At(lower, Find(upper, At(s, i), 1))) \o LowerFrom(i + 1)
    IN LowerFrom(1)

\* a variant of detect_mode that compares the message as it was typed
detect_mode_cased(latest_message) ==
    LET stripped == Strip(latest_message)
        hits == SelectSeq(<<"lec", "rev", "work", "done">>,
                          LAMBDA prefix : StartsWith(stripped, "/" \o prefix))
    IN IF hits # <<>>
       THEN [name |-> hits[1],
             user_message |-> Strip(SubSeq(stripped, Len(hits[1]) + 2, Len(stripped)))]
       ELSE [name |-> "default", user_message |-> stripped]

\* detect_mode: the Mode of the first prefix the lowered message starts with
detect_mode(latest_message) ==
    LET stripped == Strip(latest_message)
        lower == Lower(stripped)
        hits == SelectSeq(<<"lec", "rev", "work", "done">>,
                          LAMBDA prefix : StartsWith(lower, "/" \o prefix))
    IN IF hits # <<>>
       THEN [name |-> hits[1],
             user_message |-> Strip(SubSeq(stripped, Len(hits[1]) + 2, Len(stripped)))]
       ELSE [name |-> "default", user_message |-> stripped]

\* no request is being served
NoChat == [pc |-> "idle", message |-> "", mode |-> "", user_message |-> "", key |-> FALSE,
           events |-> <<>>, started |-> <<>>, ended |-> ""]

\* chat_stream.generate up to its first yield: the mode of the latest message
\* (detect_mode), whether settings.you_api_key is set, and the "Thinking..."
\* status
ChatRequest(messages) ==
    /\ chat.pc = "idle"
    /\ \E latest \in messages, key \in BOOLEAN :
         LET mode == detect_mode(latest) IN
         chat' = [NoChat EXCEPT !.pc = "stream", !.message = latest, !.mode = mode.name,
                                !.user_message = mode.user_message, !.key = key,
                                !.events = <<"status">>]
    /\ UNCHANGED <<dirs, files, ret, touched, lastOp, regLog, ctx, passVars>>

\* one content event of agent.arun(prompt, stream=True)
ChatChunk ==
    /\ chat.pc = "stream"
    /\ Len(SelectSeq(chat.events, LAMBDA e : e = "message")) < MaxChunks
    /\ chat' = [chat EXCEPT !.events = Append(@, "message")]
    /\ UNCHANGED <<dirs, files, ret, touched, lastOp, regLog, ctx, passVars>>

\* the stream raises: the except clause sends the error event and the handler ends
ChatError ==
    /\ chat.pc = "stream"
    /\ chat' = [chat EXCEPT !.pc = "closed", !.events = Append(@, "error"),
                            !.ended = "error"]
    /\ UNCHANGED <<dirs, files, ret, touched, lastOp, regLog, ctx, passVars>>

\* the stream is exhausted: the done event
ChatDone ==
    /\ chat.pc = "stream"
    /\ chat' = [chat EXCEPT !.pc = "sent_done", !.events = Append(@, "done")]
    /\ UNCHANGED <<dirs, files, ret, touched, lastOp, regLog, ctx, passVars>>

\* a variant of the trigger that starts the fact-check whatever the mode is
ChatFactCheck_any_mode ==
    /\ chat.pc = "sent_done"
    /\ IF chat.key
       THEN chat' = [chat EXCEPT !.pc = "sent_fc", !.started = Append(@, "fc"),
                                !.events = Append(@, "status")]
       ELSE chat' = [chat EXCEPT !.pc = "sent_fc"]
    /\ UNCHANGED <<dirs, files, ret, touched, lastOp, regLog, ctx, passVars>>

\* if mode.name == "done" and settings.you_api_key: create_task(run_fact_check)
ChatFactCheck ==
    /\ chat.pc = "sent_done"
    /\ IF chat.mode = "done" /\ chat.key
       THEN chat' = [chat EXCEPT !.pc = "sent_fc", !.started = Append(@, "fc"),
                                !.events = Append(@, "status")]
       ELSE chat' = [chat EXCEPT !.pc = "sent_fc"]
    /\ UNCHANGED <<dirs, files, ret, touched, lastOp, regLog, ctx, passVars>>

\* if mode.name == "done": create_task(run_progress_update); the handler ends
ChatProgress ==
    /\ chat.pc = "sent_fc"
    /\ IF chat.mode = "done"
       THEN chat' = [chat EXCEPT !.pc = "closed", !.started = Append(@, "pg"),
                                !.events = Append(@, "status"), !.ended = "end"]
       ELSE chat' = [chat EXCEPT !.pc = "closed", !.ended = "end"]
    /\ UNCHANGED <<dirs, files, ret, touched, lastOp, regLog, ctx, passVars>>

\* the client goes away while the handler waits in a yield: the generator is
\* closed there and runs no further
ChatDisconnect ==
    /\ chat.pc \in {"stream", "sent_done", "sent_fc"}
    /\ chat.pc = "sent_fc" => chat.events[Len(chat.events)] = "status"
    /\ chat' = [chat EXCEPT !.pc = "closed", !.ended = "disconnect"]
    /\ UNCHANGED <<dirs, files, ret, touched, lastOp, regLog, ctx, passVars>>

\* the next request
ChatNext ==
    /\ chat.pc = "closed"
    /\ chat' = NoChat
    /\ UNCHANGED <<dirs, files, ret, touched, lastOp, regLog, ctx, passVars>>

\* the requests of a session: one message for each mode
NextChat ==
    \/ ChatRequest({"/Lec Today we cover topology", "/Rev Quiz me", "/Work hw1", "/Done",
                    "What is a compact set?"})
    \/ ChatChunk \/ ChatError \/ ChatDone
    \/ ChatFactCheck \/ ChatProgress \/ ChatDisconnect \/ ChatNext

\* a fresh workspace for the passes: no document, no state file, no report
InitPass ==
    /\ now = 1
    /\ mtime = [d \in Docs |-> 0]
    /\ sessions = 0
    /\ cursor = [k \in {"fc", "pg"} |-> 0]
    /\ report = NoReport
    /\ progress = NoProgress
    /\ pass = [p \in Passes |-> Idle]
    /\ included = [k \in {"fc", "pg"} |-> {}]
    /\ quiet = [k \in {"fc", "pg"} |-> FALSE]
    /\ corrupt = {}

TemplateText ==
    << "\\renewcommand{\\lecturenum}{X}",
       "\\renewcommand{\\lecturedate}{January 1, 2026}",
       "\\renewcommand{\\lecturetopic}{Topic}",
       "% LECTURE X: Topic",
       "% Date: January 1, 2026",
       "\\begin{document}", "\\end{document}" >>

MasterText == << "\\begin{document}", LectureMarker, "\\end{document}" >>

ContainerText == << "\\section{Sessions}", SessionMarker >>

sibling_dir == <<"classes", "Math-104-old">>

\* the workspace of a class, beside a directory whose name extends the class
\* directory's name, with or without the lecture template and the two containers
InitFS(withTemplate, withContainers) ==
        /\ dirs = Ancestors(latex_dir \o <<"temp">>) \cup Ancestors(latex_dir \o <<"master">>)
                  \cup Ancestors(sessions_dir) \cup Ancestors(sibling_dir) \cup {<<"etc">>}
        /\ files = [q \in {sibling_dir \o <<"secret.tex">>, <<"etc", "passwd">>}
                          \cup (IF withTemplate THEN {template_path} ELSE {})
                          \cup (IF withContainers THEN {master_path, container_path} ELSE {})
                    |-> IF q = template_path THEN TemplateText
                        ELSE IF q = master_path THEN MasterText
                        ELSE IF q = container_path THEN ContainerText
                        ELSE <<"secret">>]
        /\ ret = Ret("")
        /\ touched = {}
        /\ lastOp = [name |-> "", args |-> <<>>]
        /\ regLog = [lec |-> <<>>, ses |-> <<>>, pure |-> TRUE]
        /\ chat = NoChat
        /\ ctx = NoCtx

\* the tools start in any of the four workspaces, with no pass running
InitTools ==
    /\ \E withTemplate \in BOOLEAN, withContainers \in BOOLEAN :
          InitFS(withTemplate, withContainers)
    /\ InitPass

\* the passes start in a fresh workspace
Init == InitFS(TRUE, TRUE) /\ InitPass

\* the arguments the agent passes to the tools
InsidePaths == {"notes/latex/lec01/lec01.tex", "notes/../hw/hw1/assignment.txt"}

EscapingPaths == {"../../etc/passwd", "/etc/passwd", "../Math-104-old/secret.tex",
                  "../Math-104-old/new/x.tex"}

Contents == {<<"text">>, <<>>}

\* a date that climbs out of notes/latex/sessions once a directory "session-" exists
EscapingDate == "/../../../../../Math-104-old/pwn"

\* read, write and list, with paths inside and outside the class directory
NextTools ==
    \/ ReadFile(InsidePaths \cup EscapingPaths)
    \/ WriteFile(InsidePaths \cup EscapingPaths, Contents)
    \/ ListFiles({"", "notes/latex", "..", "/etc", "../Math-104-old"})

SpecTools == InitTools /\ [][NextTools]_vars

\* the two create operations
NextCreate ==
    \/ CreateLecture({1, 2, 12}, {"February 7, 2026"}, {"Sequences"})
    \/ CreateSession({"2026-02-06", "2026-02-07", "2026-01-30"}, {"limits\n\n  series "})

SpecCreate == InitTools /\ [][NextCreate]_vars

\* create and compile with arguments that name places outside the class directory
NextSandbox ==
    \/ CompileNotes({"master", "/classes/Math-104-old/secret", "../../../Math-104-old/secret"},
                    {r \in Runs : r[2] = "0" /\ r[3] = "0"})
    \/ CreateLecture({1}, {"February 7, 2026"}, {"Sequences"})
    \/ CreateSession({"2026-02-06", EscapingDate}, {"limits"})
    \/ WriteFile({"notes/latex/sessions/session-/keep.txt"}, {<<"text">>})

SpecSandbox == InitTools /\ [][NextSandbox]_vars

FactCheck(p) ==
    \/ FcLoad(p) \/ FcFind(p) \/ FcRead(p) \/ FcStamp(p) \/ FcGenerate(p)
    \/ FcWrite(p) \/ FcSave(p) \/ Return(p)

Progress(p) ==
    \/ PgLoad(p) \/ PgGather(p) \/ PgRead(p) \/ PgStamp(p) \/ PgGenerate(p)
    \/ PgWrite(p) \/ PgSave(p) \/ Return(p)

\* a kind of pass that has not run yet: nothing persisted, no invocation under way
Untouched(k) ==
    /\ cursor[k] = 0
    /\ included[k] = {}
    /\ ~quiet[k]
    /\ \A q \in Passes : Kind(q) = k => pass[q].pc = "idle"
    /\ k = "fc" => report = NoReport
    /\ k = "pg" => progress = NoProgress

\* one kind of background pass beside the foreground's writes.  The two kinds
\* write disjoint files (sessions/fact-check-* and progress/*), and neither
\* reads what the other writes, so each behaviour follows one kind only.
NextPass ==
    \/ Tick
    \/ WriteDoc(Docs)
    \/ NewSession
    \/ Untouched("pg") /\ FactCheck("fc1")
    \/ Untouched("fc") /\ Progress("pg1")

SpecPass == Init /\ [][NextPass]_vars

\* builds of the whole notebook and of one lecture, with every outcome of the
\* external programs
NextCompile ==
    \/ CompileNotes({"master", "lec01"}, Runs)
    \/ CreateLecture({1}, {"February 7, 2026"}, {"Sequences"})

SpecCompile == InitTools /\ [][NextCompile]_vars

\* the context is built between tool calls that change the workspace
NextContext ==
    \/ BuildContext(Modes, {"", "hw1"})
    \/ CreateLecture({1}, {"February 7, 2026"}, {"Sequences"})
    \/ WriteFile({"notes/latex/syllabus/syllabus.tex"}, {<<"text">>})

SpecContext == Init /\ [][NextContext]_vars

\* the most lectures of a class
MaxLectures == 100

\* the agent creates the lectures of a class one after the other, from 1 upwards
\* or from some number down to 1
NextIndex ==
    LET first == IF regLog.lec = <<>> THEN 0 ELSE regLog.lec[1]
        nums  == IF first = 0 THEN {1, 2, 3, MaxLectures}
                 ELSE IF first = 1 THEN {Len(regLog.lec) + 1} \cap (1..MaxLectures)
                 ELSE {first - Len(regLog.lec)} \cap (1..MaxLectures)
    IN CreateLecture(nums, {"February 7, 2026"}, {"Sequences"})

SpecIndex == Init /\ [][NextIndex]_vars

\* requests with the messages a student types, each dropped when the client
\* goes away: a command or another word, after leading blanks or none, before a
\* remainder or none
NextMode ==
    \/ ChatRequest({lead \o word \o rest :
            lead \in {"", " ", "\n "},
            word \in {"/Lec", "/lec", "/LEC", "/Rev", "/Work", "/wOrK", "/Done", "/donezo",
                      "/working", "/lecrev", "/rev/done", "/le", "lec", "/ lec", "hello", ""},
            rest \in {"", " hw2 please", " /rev x ", "\n"}})
    \/ ChatDisconnect
    \/ ChatNext

SpecMode == Init /\ [][NextMode]_vars

\* the chat requests of one server
SpecChat == Init /\ [][NextChat]_vars

\* the tools on one session document
NextSession ==
    \/ CreateSession({"2026-02-06"}, {"limits"})
    \/ WriteFile({"notes/latex/sessions/session-2026-02-06.tex"}, Contents)
    \/ ReadFile({"notes/latex/sessions/session-2026-02-06.tex"})
    \/ ListFiles({"notes/latex/sessions"})
    \/ CreateLecture({1}, {"February 7, 2026"}, {"Sequences"})
    \/ CompileNotes({"master"}, {r \in Runs : r[1] = "0" /\ r[2] = "0" /\ r[3] = "0"})

SpecSession == InitTools /\ [][NextSession]_vars

\* create calls mixed with writes of the two container documents themselves
NextRegister ==
    \/ CreateLecture({1, 2}, {"February 7, 2026"}, {"Sequences"})
    \/ CreateSession({"2026-02-06", "2026-02-07"}, {"limits"})
    \/ WriteFile({"notes/latex/master/master.tex", "notes/latex/sessions/sessions.tex"},
                 {<<"\\begin{document}", "\\end{document}">>,
                  <<LectureMarker, SessionMarker, LectureMarker, SessionMarker>>,
                  MasterText, ContainerText})

SpecRegister == Init /\ [][NextRegister]_vars

\* paths inside the class directory that name a directory, a file, a path under
\* a file, and a file in a directory that does not exist yet
FaultPaths == {"notes/latex", "notes/a.tex", "notes/a.tex/b.tex", "hw/hw1/x.tex"}

\* the generic tools on those paths, with contents that have a carriage return
\* before a line end and inside a line
NextFaults ==
    \/ ReadFile(FaultPaths)
    \/ WriteFile(FaultPaths, {<<"text">>, <<"a\r", "b">>, <<"a\rb">>})
    \/ ListFiles({"notes", "notes/a.tex"})

SpecFaults == InitTools /\ [][NextFaults]_vars

\* the passes, one kind per behaviour, beside a foreground that also writes
\* the state files
NextStateFile ==
    \/ Tick
    \/ WriteDoc({"lec01"})
    \/ NewSession
    \/ WriteStateFile
    \/ Untouched("pg") /\ FactCheck("fc1")
    \/ Untouched("fc") /\ Progress("pg1")

SpecStateFile == Init /\ [][NextStateFile]_vars

\* a fact-check pass and a progress pass in any interleaving, beside the
\* foreground's writes of one lecture
NextBoth ==
    \/ Tick
    \/ WriteDoc({"lec01"})
    \/ FactCheck("fc1")
    \/ Progress("pg1")

\* a workspace after a first study session: one lecture and one session document
InitBoth ==
    /\ InitFS(TRUE, TRUE)
    /\ now = 1
    /\ mtime = [d \in Docs |-> IF d = "lec01" THEN 1 ELSE 0]
    /\ sessions = 1
    /\ cursor = [k \in {"fc", "pg"} |-> 0]
    /\ report = NoReport
    /\ progress = NoProgress
    /\ pass = [p \in Passes |-> Idle]
    /\ included = [k \in {"fc", "pg"} |-> {}]
    /\ quiet = [k \in {"fc", "pg"} |-> FALSE]
    /\ corrupt = {}

SpecBoth == InitBoth /\ [][NextBoth]_vars

\* two fact-check passes that overlap, one started by a wrap-up request and one
\* by POST /fact-check/trigger, beside the foreground's writes of one lecture.
\* They are tasks of one event loop: a pass runs from one await to the next
\* before another task runs, and its only await is the generation call (OnLoop).
NextOverlap ==
    LET OnLoop(p) == \A q \in Passes \ {p} : pass[q].pc \in {"idle", "generate", "done"} IN
    \/ Tick
    \/ WriteDoc({"lec01"})
    \/ \E p \in FcPasses : OnLoop(p) /\ FactCheck(p)

SpecOverlap == InitBoth /\ [][NextOverlap]_vars

\* the whole system: the chat requests, the agent's tool calls and the two
\* background passes
Next ==
    \/ NextTools \/ NextCreate \/ NextSandbox \/ NextCompile
    \/ NextChat \/ BuildContext(Modes, {"", "hw1"})
    \/ Tick \/ WriteDoc(Docs) \/ NewSession \/ WriteStateFile
    \/ \E p \in FcPasses : FactCheck(p)
    \/ \E p \in PgPasses : Progress(p)

Spec == InitTools /\ [][Next]_vars

-----------------------------------------------------------------------------
(* The workspace sandbox of the generic tools *)

\* C1: whenever read_file, write_file or list_files is called with a path that
\* resolves outside the class directory, the call returns the path-violation
\* error, and no call of the three reads, creates or modifies a file or a
\* directory outside the class directory.
C1_GenericToolsStayInRoot ==
    lastOp.name \in {"read_file", "write_file", "list_files"} =>
        LET target == Resolve(Join(class_dir, lastOp.args[1])) IN
        /\ ~IsPrefix(class_dir, target) => ret.msg = EscapesMsg
        /\ \A p \in touched : IsPrefix(class_dir, p)

\* C8: create_lecture, create_session and compile_notes touch nothing outside
\* the class directory, and a call whose argument names a document outside the
\* class directory returns the path-violation error.
C8_CreateAndCompileStayInRoot ==
    LET a == lastOp.args
        named == IF lastOp.name = "create_session"
                 THEN Resolve(Join(sessions_dir, "session-" \o a[1] \o ".tex"))
                 ELSE IF lastOp.name = "compile_notes" /\ a[1] # "master"
                 THEN Resolve(Join(Join(latex_dir, a[1]), a[1] \o ".tex"))
                 ELSE class_dir IN
    lastOp.name \in {"create_lecture", "create_session", "compile_notes"} =>
        /\ ~IsPrefix(class_dir, named) => ret.msg = EscapesMsg
        /\ \A p \in touched : IsPrefix(class_dir, p)

-----------------------------------------------------------------------------
(* Creating lectures and sessions *)

\* C6: a create_lecture call for a lecture whose document exists, or made while
\* the template is missing, and a create_session call for a date whose session
\* document exists, return an error and leave every file and directory as it was.
C6_FailedCreateChangesNothing ==
    [][LET a == lastOp'.args IN
       /\ (/\ lastOp'.name = "create_lecture"
           /\ \/ PExists(FS, latex_dir \o <<"lec" \o Fmt02d(a[1]),
                                            "lec" \o Fmt02d(a[1]) \o ".tex">>)
              \/ ~PExists(FS, template_path))
          => StartsWith(ret'.msg, "Error:") /\ UNCHANGED <<dirs, files>>
       /\ (/\ lastOp'.name = "create_session"
           /\ PExists(FS, Join(sessions_dir, "session-" \o a[1] \o ".tex")))
          => StartsWith(ret'.msg, "Error:") /\ UNCHANGED <<dirs, files>>
      ]_vars

\* C6: a second create_session for a date has been refused
C6_DuplicateRefused ==
    /\ lastOp.name = "create_session"
    /\ lastOp.args[1] = "2026-02-07"
    /\ ret.msg = "Error: session-2026-02-07.tex already exists"
    /\ IsFile(FS, sessions_dir \o <<"session-2026-02-07.tex">>)

\* C7: while only create_lecture and create_session write the two containers,
\* each container is its text before the marker, then one include block for
\* each successful create call in call order, then the marker, then its text
\* after the marker; the marker occurs once.
C7_RegistrationsInCallOrder ==
    regLog.pure =>
        /\ IsFile(FS, master_path) =>
             /\ files[master_path] =
                    <<MasterText[1]>> \o Flatten([i \in DOMAIN regLog.lec |-> LectureBlock(regLog.lec[i])])
                    \o <<LectureMarker, MasterText[3]>>
             /\ Count(files[master_path], LectureMarker) = 1
        /\ IsFile(FS, container_path) =>
             /\ files[container_path] =
                    <<ContainerText[1]>> \o Flatten([i \in DOMAIN regLog.ses |-> SessionBlock(regLog.ses[i])])
                    \o <<SessionMarker>>
             /\ Count(files[container_path], SessionMarker) = 1

\* C7: two lectures and two sessions have been registered in the containers
C7_TwoOfEachRegistered ==
    /\ regLog.pure
    /\ Len(regLog.lec) >= 2
    /\ Len(regLog.ses) >= 2
    /\ IsFile(FS, master_path)
    /\ IsFile(FS, container_path)

-----------------------------------------------------------------------------
(* The cursor of the background passes *)

\* C2: a tracked document that exists and whose modification time is at or
\* before the persisted cursor of a pass kind had its present content read by a
\* successful pass of that kind.
C2_NoWriteMissed ==
    \A k \in {"fc", "pg"} : \A d \in Tracked(k) :
        (mtime[d] # 0 /\ mtime[d] <= cursor[k]) => d \in included[k]

\* C9: a pass that found a non-empty delta set and succeeded has persisted, as
\* the cursor, the time at which it started, before it computed the delta set
\* and read any document.
C9_CursorIsStartTime ==
    \A p \in Passes :
        (pass[p].pc = "done" /\ pass[p].result = "raw" /\ pass[p].changed # <<>>)
            => cursor[Kind(p)] = pass[p].start_ts

\* C3: a pass whose generation call raised has returned its failure message,
\* the persisted cursor is the one the pass loaded, and the delta set under
\* that cursor holds every document of the failed pass's delta set.
C3_FailedPassKeepsCursor ==
    \A p \in Passes :
        pass[p].answer = "raise" =>
            /\ pass[p].pc = "done"
            /\ pass[p].result \in {"Fact-check failed", "Progress update failed"}
            /\ cursor[Kind(p)] = pass[p].last_run
            /\ Range(pass[p].changed) \subseteq Range(changed_since(Kind(p), cursor[Kind(p)]))

\* C3: a pass with a non-empty delta set has failed in its generation call
C3_GenerationRaised ==
    \E p \in Passes :
        /\ pass[p].answer = "raise"
        /\ pass[p].changed # <<>>
        /\ pass[p].pc = "done"

\* C4: as long as nothing was written since a successful fact-check pass began,
\* the delta set under the persisted cursor is empty, the report is the one
\* that pass wrote, and a further fact-check pass gets no further than its
\* delta computation: it returns that nothing changed, without a generation
\* call, a report write or a cursor write.
C4_SecondFactCheckIsNoOp ==
    quiet["fc"] =>
        /\ find_changed_lectures(cursor["fc"]) = <<>>
        /\ report.timestamp = cursor["fc"]
        /\ \A p \in FcPasses :
             /\ pass[p].pc \in {"idle", "find", "done"}
             /\ pass[p].pc = "find" => pass[p].last_run = cursor["fc"]
             /\ pass[p].pc = "done" =>
                  pass[p].result \in {"raw", "No lectures changed since last fact-check."}

\* C4: a fact-check pass after a successful one has returned that nothing changed
C4_SecondPassReturned ==
    /\ quiet["fc"]
    /\ cursor["fc"] > 0
    /\ report.files_checked # <<>>
    /\ \E p \in FcPasses :
         /\ pass[p].pc = "done"
         /\ pass[p].result = "No lectures changed since last fact-check."

C11_EmptyResultWritesNothing ==
    \A p \in Passes :
        pass[p].answer \in {"none", "blank"} =>
            /\ pass[p].pc \notin {"write", "save"}
            /\ pass[p].pc = "done" => pass[p].result # "raw"

\* C11: a cursor changes only in the saving step of a pass of its kind, whose
\* generation call returned and whose output file (report or narrative) was
\* written in full with the pass's timestamp, and the new cursor is that
\* timestamp; a pass that returns anything but its generated text (it
\* short-circuited, failed, or was a progress pass with an empty answer) leaves
\* the cursors as they were.
C11_CursorWrittenLast ==
    [][/\ \A k \in {"fc", "pg"} :
            cursor'[k] # cursor[k] =>
               \E p \in Passes :
                  /\ Kind(p) = k
                  /\ pass[p].pc = "save" /\ pass'[p].pc = "done"
                  /\ pass[p].answer \in {"list", "malformed", "none", "text"}
                  /\ cursor'[k] = pass[p].run_ts
                  /\ k = "fc" => /\ report.timestamp = pass[p].run_ts
                                 /\ report.files_checked = pass[p].changed
                  /\ k = "pg" => progress.timestamp = pass[p].run_ts
       /\ \A p \in Passes :
            (pass[p].pc # "done" /\ pass'[p].pc = "done" /\ pass'[p].result # "raw")
               => UNCHANGED cursor
      ]_vars

\* C11: a pass has written its output and then advanced the cursor
C11_CursorAdvanced ==
    \E p \in FcPasses :
        /\ pass[p].pc = "done"
        /\ pass[p].result = "raw"
        /\ cursor["fc"] = pass[p].run_ts
        /\ cursor["fc"] > pass[p].last_run
        /\ report.timestamp = cursor["fc"]

\* C12: a step of a fact-check pass leaves the progress cursor and the progress
\* narrative as they were, a step of a progress pass leaves the fact-check
\* cursor and the report as they were, and under every interleaving of the two
\* passes a cursor that changes becomes the timestamp its own pass took, as it
\* does when the pass runs alone.
C12_IndependentCursors ==
    [][/\ \A p \in FcPasses :
            pass'[p].pc # pass[p].pc =>
                cursor'["pg"] = cursor["pg"] /\ progress' = progress
       /\ \A p \in PgPasses :
            pass'[p].pc # pass[p].pc =>
                cursor'["fc"] = cursor["fc"] /\ report' = report
       /\ \A k \in {"fc", "pg"} :
            cursor'[k] # cursor[k] =>
                \E p \in Passes : /\ Kind(p) = k
                                  /\ pass[p].pc = "save"
                                  /\ cursor'[k] = pass[p].run_ts
      ]_vars

\* C12: a fact-check pass has saved its timestamp while a progress pass that
\* took another timestamp is about to save
C12_SavedWhileOtherRuns ==
    \E p \in FcPasses, q \in PgPasses :
        /\ pass[p].pc = "done" /\ pass[p].result = "raw"
        /\ pass[q].pc = "save"
        /\ pass[q].start_ts < pass[p].run_ts
        /\ pass[p].run_ts # pass[q].run_ts
        /\ cursor["fc"] = pass[p].run_ts
        /\ cursor["pg"] = pass[q].last_run

-----------------------------------------------------------------------------
(* Results of the tools *)

\* C13: no call of a tool of the mutation surface raises: every call returns a
\* result value.
C13_ToolsNeverRaise == ~Raised(ret)

-----------------------------------------------------------------------------
(* Results of the background passes *)

\* C14: a background pass that has returned has returned a text: no exception
\* leaves run_fact_check or run_progress_update.
C14_PassNeverRaises ==
    \A p \in Passes : pass[p].pc = "done" => ~StartsWith(pass[p].result, "raise ")

\* C15: after write_file(path, c) with a path that resolves inside the class
\* directory, the call has succeeded and read_file(path) returns exactly c.
C15_WriteThenRead ==
    (/\ lastOp.name = "write_file"
     /\ IsPrefix(class_dir, Resolve(Join(class_dir, lastOp.args[1]))))
    => /\ StartsWith(ret.msg, "Written: ")
       /\ read_file(lastOp.args[1]).ret = [msg |-> "content", data |-> lastOp.args[2]]

-----------------------------------------------------------------------------
(* Session documents *)

\* C16: the session document of every date for which create_session succeeded
\* exists and holds the content create_session wrote.
C16_SessionImmutable ==
    \A i \in DOMAIN regLog.ses :
        LET session_file == sessions_dir \o <<"session-" \o regLog.ses[i] \o ".tex">> IN
        /\ IsFile(FS, session_file)
        /\ files[session_file] =
               SessionContent(regLog.ses[i], "Review", "limits", "limits", "read ahead")

-----------------------------------------------------------------------------
(* Building the notebook *)

\* C17: a build of master starts pdflatex, makeindex, pdflatex in that order,
\* each at most once; it ends at the first step that is missing, times out, or
\* is a pdflatex with a non-zero exit, with the message of that failure, and a
\* non-zero exit of makeindex does not end it; the PDF in the class directory
\* is written only by a build in which no step failed in one of these ways.
C17_BuildSteps ==
    (lastOp.name = "compile_notes" /\ lastOp.args[1] = "master"
       /\ ret.msg # "Error: master.tex not found") =>
    LET outs  == lastOp.args[2]
        order == <<"pdflatex", "makeindex", "pdflatex">>
        hard  == {i \in 1..3 : \/ outs[i] \in {"FileNotFoundError", "TimeoutExpired"}
                               \/ outs[i] = "nonzero" /\ order[i] = "pdflatex"}
        h     == CHOOSE i \in hard : \A j \in hard : i <= j
        root_pdf == class_dir \o <<"Math-104-Notes.pdf">> IN
    IF hard = {}
    THEN /\ ret.data = order
         /\ ret.msg \in {"Compiled successfully", "Error: PDF not generated"}
    ELSE /\ root_pdf \notin touched
         /\ CASE outs[h] = "nonzero" ->
                    ret.msg = "Compilation failed at pdflatex" /\ ret.data = SubSeq(order, 1, h)
              [] outs[h] = "TimeoutExpired" ->
                    /\ ret.msg = "Error: compilation timed out after 120 seconds"
                    /\ ret.data = SubSeq(order, 1, h)
              [] outs[h] = "FileNotFoundError" ->
                    /\ ret.msg = "Error: pdflatex not installed. Install TeX Live."
                    /\ ret.data = SubSeq(order, 1, h - 1)

\* C17: a build of master whose makeindex failed has copied the PDF to the
\* class directory
C17_BuiltDespiteIndexFailure ==
    /\ lastOp.name = "compile_notes"
    /\ lastOp.args[1] = "master"
    /\ lastOp.args[2] = <<"0", "nonzero", "0">>
    /\ ret.msg = "Compiled successfully"
    /\ ret.data = <<"pdflatex", "makeindex", "pdflatex">>
    /\ class_dir \o <<"Math-104-Notes.pdf">> \in touched

-----------------------------------------------------------------------------
(* C18: the background passes of a chat request *)

\* C18 as stated: every request in wrap-up mode that runs to its end has started
\* the fact-check pass and then the progress pass.
C18_CompletedWrapUpStartsBoth ==
    (chat.ended = "end" /\ chat.mode = "done") => chat.started = <<"fc", "pg">>

\* C18: a chat request starts a background pass only in wrap-up mode and only after
\* its done event; the fact-check pass is started only when the search API key is
\* set; a wrap-up request that runs to its end has started the progress pass, and
\* before it the fact-check pass when the key is set; a request in another mode,
\* or one whose stream fails, starts none.
C18_PassesStartAfterWrapUp ==
    /\ chat.started # <<>> =>
          (chat.mode = "done" /\ \E i \in DOMAIN chat.events : chat.events[i] = "done")
    /\ (\E i \in DOMAIN chat.started : chat.started[i] = "fc") => chat.key
    /\ (chat.ended = "end" /\ chat.mode = "done")
          => chat.started = IF chat.key THEN <<"fc", "pg">> ELSE <<"pg">>
    /\ (chat.ended = "error" \/ (chat.pc # "idle" /\ chat.mode # "done"))
          => chat.started = <<>>

\* a wrap-up request with the key set has run to its end and started both passes
C18_WrapUpStartedBoth ==
    /\ chat.ended = "end"
    /\ chat.mode = "done"
    /\ chat.key
    /\ chat.events[Len(chat.events) - 2] = "done"
    /\ chat.started = <<"fc", "pg">>

-----------------------------------------------------------------------------
(* C19: a fact-check answer that is no list of findings *)

\* C19: a fact-check pass whose generated answer does not parse to a list of
\* findings goes on to the report write instead of returning a failure; its
\* report write leaves a report with the pass's timestamp, the pass's
\* files_checked and no finding; and its saving step sets the fact-check cursor
\* to the pass's timestamp and returns the generated text, which is what the
\* saving step of a pass with a list of findings does.
C19_MalformedDegradesToEmpty ==
    [][\A p \in FcPasses :
          /\ (pass[p].pc = "generate" /\ pass'[p].answer = "malformed")
                => pass'[p].pc = "write"
          /\ (pass[p].pc = "write" /\ pass'[p].pc = "save"
                                   /\ pass[p].answer = "malformed")
                => report' = [timestamp |-> pass[p].run_ts,
                              files_checked |-> pass[p].changed,
                              findings |-> <<>>]
          /\ (pass[p].pc = "save" /\ pass'[p].pc = "done"
                                  /\ pass[p].answer \in {"malformed", "list"})
                => /\ cursor'["fc"] = pass[p].run_ts
                   /\ pass'[p].result = "raw"
      ]_vars

\* a pass whose answer was malformed has returned, leaving the empty report of
\* its delta set and the cursor at its timestamp
C19_MalformedPassSaved ==
    \E p \in FcPasses :
        /\ pass[p].pc = "done"
        /\ pass[p].answer = "malformed"
        /\ pass[p].result = "raw"
        /\ pass[p].changed # <<>>
        /\ report = [timestamp |-> pass[p].run_ts, files_checked |-> pass[p].changed,
                     findings |-> <<>>]
        /\ cursor["fc"] = pass[p].run_ts
        /\ cursor["fc"] > pass[p].last_run

-----------------------------------------------------------------------------
(* C20: build_context reads the workspace and keeps nothing *)

-----------------------------------------------------------------------------
(* C21: a section of the context whose source is missing or empty *)

\* C21: in the text build_context returns, the section of a source document
\* that is missing or empty (master preamble, lecture template, syllabus,
\* glossary, assignments overview, session container) is absent with its
\* heading, and with no lecture in the workspace so are the lecture index and
\* the lecture summaries.
C21_NoSectionWithoutSource ==
    LET Has(heading) == Find(ctx.out, heading, 1) # 0
        Empty(dir, name) == read_safe(ctx.fs, latex_dir \o <<dir, name>>) = ""
    IN (ctx.called /\ ~StartsWith(ctx.out, "raise ")) =>
          /\ Empty("master", "master.tex") => ~Has("### LaTeX Preamble")
          /\ Empty("temp", "temp.tex") => ~Has("### Lecture Template")
          /\ Empty("syllabus", "syllabus.tex") => ~Has("### Syllabus")
          /\ Empty("glossary", "glossary.tex") => ~Has("### Glossary")
          /\ Empty("assignments", "assignments.tex") => ~Has("### Assignments Overview")
          /\ Empty("sessions", "sessions.tex") => ~Has("### sessions.tex")
          /\ discover_lectures(ctx.fs) = <<>> =>
                ~Has("### Lecture Index") /\ ~Has("### Lecture Summaries")

-----------------------------------------------------------------------------
(* C22: the compact lecture index of a class with lectures 1..N *)

\* C22: in a workspace whose lectures are those create_lecture made for the
\* numbers 1..N, in whatever order, the compact index holds its heading and one
\* line per lecture, the lines in ascending order of the lecture number.
C22_IndexAscending ==
    LET N == Len(regLog.lec) IN
    {regLog.lec[i] : i \in 1..N} = 1..N =>
        format_lecture_index(all_lecture_metadata(FS))
          = JoinWith(<<"### Lecture Index">>
                     \o [n \in 1..N |-> "- Lecture " \o Str(n)
                                        \o " (February 7, 2026): Sequences"],
                     "\n")

-----------------------------------------------------------------------------
(* C23: the lectures the lecture-authoring context holds in full *)

\* C23: in lec mode the text holds the full content of the two lectures with
\* the greatest numbers (of every lecture when there are fewer than two), the
\* lower number first, and of no other lecture, and the index has a line for
\* every lecture.
C23_LastTwoInFull ==
    LET created == {regLog.lec[i] : i \in DOMAIN regLog.lec}
        last_two == {n \in created : Cardinality({k \in created : k > n}) < 2}
        out == build_context(FS, "lec", "")
        Full(n) == Find(out, "### Full content: lec" \o Fmt02d(n) \o "\n", 1)
    IN /\ \A n \in created : Full(n) # 0 <=> n \in last_two
       /\ \A n, k \in last_two : n < k => Full(n) < Full(k)
       /\ \A n \in created : Find(out, "\n- Lecture " \o Str(n) \o " (", 1) # 0

-----------------------------------------------------------------------------
(* C24: the mode and the residual of a message *)

\* C24: the trimmed, lowered message of a request starts with at most one of
\* "/lec", "/rev", "/work", "/done"; when it starts with one, the mode is that
\* one and the residual is the trimmed message after the token, trimmed;
\* otherwise the mode is default and the residual is the trimmed message;
\* "/Work hw2 please" gives work and "hw2 please", "hello" gives default and
\* "hello".
C24_OneModePerMessage ==
    LET stripped == Strip(chat.message)
        tokens == {t \in {"lec", "rev", "work", "done"} :
                      StartsWith(Lower(stripped), "/" \o t)}
    IN chat.pc # "idle" =>
          /\ Cardinality(tokens) <= 1
          /\ \A t \in tokens :
                /\ chat.mode = t
                /\ chat.user_message = Strip(SubSeq(stripped, Len(t) + 2, Len(stripped)))
          /\ tokens = {} => chat.mode = "default" /\ chat.user_message = stripped
          /\ chat.message = "/Work hw2 please" =>
                chat.mode = "work" /\ chat.user_message = "hw2 please"
          /\ chat.message = "hello" =>
                chat.mode = "default" /\ chat.user_message = "hello"

\* the request "/Work hw2 please" has been taken as work on "hw2 please"
C24_WorkDetected ==
    /\ chat.pc = "stream"
    /\ chat.message = "/Work hw2 please"
    /\ chat.mode = "work"
    /\ chat.user_message = "hw2 please"

-----------------------------------------------------------------------------
(* C25: the cursor under overlapping passes of one kind *)

\* C25: every write of a cursor stores a value that is at least the value the
\* cursor held before, whatever passes of the same kind overlap.
C25_CursorNeverDecreases ==
    [][\A k \in DOMAIN cursor : cursor'[k] >= cursor[k]]_vars

-----------------------------------------------------------------------------
(* C28: the timestamp of the report and the cursor of the fact-check *)

\* C28: when the report exists and no fact-check pass stands between its write
\* of the report and its write of the cursor, the report's timestamp is the
\* cursor, whatever passes have run, overlapped, succeeded or failed.
C28_ReportStampIsCursor ==
    (report # NoReport /\ \A p \in FcPasses : pass[p].pc # "save")
        => report.timestamp = cursor["fc"]

\* two passes have overlapped and both have written: the one started first
\* wrote last, and the report carries the cursor
C28_OverlappedAndAgree ==
    /\ pass["fc1"].pc = "done" /\ pass["fc1"].result = "raw"
    /\ pass["fc2"].pc = "done" /\ pass["fc2"].result = "raw"
    /\ pass["fc1"].run_ts # pass["fc2"].run_ts
    /\ report.timestamp = cursor["fc"]
    /\ cursor["fc"] < now

-----------------------------------------------------------------------------
(* C29: what a pass writes and what the passes look for *)

\* C29: a step of a pass leaves the modification time of every tracked
\* document as it was, and when no document was written while the pass ran,
\* the step leaves empty each delta set that was empty: that of the fact-check
\* and that of the progress pass, each taken from its persisted cursor.
C29_PassKeepsDeltaEmpty ==
    [][\A p \in Passes :
          pass'[p].pc # pass[p].pc =>
             /\ mtime' = mtime
             /\ ~pass[p].edited =>
                   \A k \in {"fc", "pg"} :
                      changed_since(k, cursor[k]) = <<>> =>
                         changed_since(k, cursor'[k]) = <<>>
      ]_vars

\* both passes have run with no document written meanwhile, and neither has
\* anything left to look at
C29_BothRanAndNothingLeft ==
    /\ \A p \in {"fc1", "pg1"} :
          pass[p].pc = "done" /\ pass[p].result = "raw" /\ ~pass[p].edited
    /\ \A k \in {"fc", "pg"} : changed_since(k, cursor[k]) = <<>>
    /\ report # NoReport
    /\ progress # NoProgress

-----------------------------------------------------------------------------
(* Registration under writes of the containers *)

\* C26: in every reachable state, each lecture document created by
\* create_lecture has exactly one include line in master.tex, and each session
\* document created by create_session has exactly one include line in
\* sessions.tex.
C26_OneIncludeLineEach ==
    /\ \A i \in DOMAIN regLog.lec :
          /\ IsFile(FS, master_path)
          /\ Count(files[master_path], LectureBlock(regLog.lec[i])[2]) = 1
    /\ \A i \in DOMAIN regLog.ses :
          /\ IsFile(FS, container_path)
          /\ Count(files[container_path], SessionBlock(regLog.ses[i])[1]) = 1

\* C27: create_lecture returns the message ending in "Added to master.tex."
\* only if the call put the lecture's include line into master.tex; with
\* master.tex absent or without the marker the message says otherwise.
C27_AddedMeansInserted ==
    (lastOp.name = "create_lecture" /\ EndsWith(ret.msg, "Added to master.tex."))
        => /\ IsFile(FS, master_path)
           /\ Count(files[master_path], LectureBlock(lastOp.args[1])[2]) >= 1

-----------------------------------------------------------------------------
(* The event stream of a chat request *)

\* C30: the first event of a chat request's stream is a status event, at most
\* one done event is sent, and in a stream without an error event no status or
\* message event follows the done event.
C30_DoneIsLast ==
    LET ev == chat.events IN
    /\ ev # <<>> => ev[1] = "status"
    /\ Cardinality({i \in DOMAIN ev : ev[i] = "done"}) <= 1
    /\ (\A i \in DOMAIN ev : ev[i] # "error")
          => \A i \in DOMAIN ev : ev[i] = "done" => i = Len(ev)

====
